---- MODULE Spec2Model ----
(***************************************************************************)
(* Model of the ordered-concurrent batch engine of @lifeomic/delta:        *)
(* processWithOrdering and handleUnprocessedRecords (src/src/utils.ts).    *)
(*                                                                         *)
(* One behaviour is one invocation: a batch and a concurrency limit are    *)
(* chosen, the batch is grouped, the groups are run by p-map (at most      *)
(* `concurrency` mappers at a time), each mapper walks its group calling   *)
(* process item by item, the unprocessed records are re-ordered, and the   *)
(* caller finalises the result in fail-fast or partial mode.               *)
(***************************************************************************)
EXTENDS Integers, Sequences, FiniteSets, TLC

\* ---------------------------------------------------------------- bounds
MaxLen == 3
MaxConcurrency == 2

\* ------------------------------------------------------------ value sets
\* Ordering keys are strings.  "2" and "10" are canonical array indices,
\* which a JavaScript object enumerates before its other keys.
Keys == {"a", "2", "10"}
Payloads == {"x", "y"}

\* An item is compared by identity (===): two positions of the batch hold
\* the same item exactly when they hold the same value of this set.
Items == [k : Keys, v : Payloads]

\* Reading the error of a record that has none yields undefined; process
\* may also reject with undefined (a falsy rejection value).
Undefined == <<"undefined", 0>>

\* The error object raised by the process call at batch position p.
ErrorAt(p) == <<"Error", p>>

RejectionValues(p) == {ErrorAt(p), Undefined}

Min(a, b) == IF a <= b THEN a ELSE b

Range(s) == {s[i] : i \in 1..Len(s)}

RECURSIVE SeqsUpTo(_, _)
SeqsUpTo(S, n) ==
  IF n = 0 THEN {<<>>}
  ELSE LET shorter == SeqsUpTo(S, n - 1)
       IN shorter \cup {Append(s, x) : s \in {t \in shorter : Len(t) = n - 1}, x \in S}

\* ------------------------------------------------------------- callbacks
\* orderBy: the caller's key function (MessageGroupId, partitionKey, ...).
orderBy(item) == item.k

\* A record without a natural key: its MessageGroupId (its dynamodb.Keys)
\* reads undefined.
NoKey == "<none>"

\* uuid(): a fresh key at every call; the call made for batch position p
\* returns Uuid(p).
Uuid(p) == "uuid-" \o ToString(p)

\* The key function without the uuid fallback: every record without a
\* natural key gets the same key.
OrderKeyShared(its, p) == orderBy(its[p])

\* The key function of the SQS and DynamoDB handlers, as groupBy calls it for
\* position p: the natural key, or a uuid for a record that has none.
OrderKey(its, p) == IF orderBy(its[p]) = NoKey THEN Uuid(p) ELSE orderBy(its[p])

\* getItemIdentifier: the record's delivery identifier (messageId, ...).
getItemIdentifier(item) == <<"id", item.k, item.v>>

\* --------------------------------------------------------------- grouping
\* Object.values(groupBy(items, orderBy)): one array per key, each holding
\* the key's items in batch order (kept here as batch positions).  The keys
\* of the object are enumerated as JavaScript does: array-index keys first,
\* in ascending numeric order, then the other keys in insertion order.
IsArrayIndex(k) == k \in {"2", "10"}

IndexValue(k) == IF k = "2" THEN 2 ELSE IF k = "10" THEN 10 ELSE -1

RECURSIVE InsertionOrder(_, _)
InsertionOrder(its, n) ==
  IF n = 0 THEN <<>>
  ELSE LET before == InsertionOrder(its, n - 1)
           k == OrderKey(its, n)
       IN IF k \in Range(before) THEN before ELSE Append(before, k)

RECURSIVE Ascending(_)
Ascending(S) ==
  IF S = {} THEN <<>>
  ELSE LET least == CHOOSE k \in S : \A j \in S : IndexValue(k) <= IndexValue(j)
       IN <<least>> \o Ascending(S \ {least})

NotArrayIndex(k) == ~IsArrayIndex(k)

\* An object that enumerates all its keys in insertion order (a Map).
ObjectKeysInserted(its) == InsertionOrder(its, Len(its))

ObjectKeys(its) ==
  LET inserted == InsertionOrder(its, Len(its))
  IN Ascending({k \in Range(inserted) : IsArrayIndex(k)})
       \o SelectSeq(inserted, NotArrayIndex)

\* groupBy that overwrites a key's array instead of pushing to it.
PositionsOfLast(its, k) ==
  LET last == CHOOSE p \in 1..Len(its) :
                /\ OrderKey(its, p) = k
                /\ \A q \in 1..Len(its) : OrderKey(its, q) = k => q <= p
  IN <<last>>

PositionsOf(its, k) ==
  LET Has(p) == OrderKey(its, p) = k
  IN SelectSeq([p \in 1..Len(its) |-> p], Has)

GroupsSplit(its) == [p \in 1..Len(its) |-> <<p>>]

Groups(its) ==
  LET keys == ObjectKeys(its)
  IN [g \in 1..Len(keys) |-> PositionsOf(its, keys[g])]

\* ------------------------------------------------------------ re-ordering
\* unsortedUnprocessedRecords.find((i) => i.item === item): the first
\* tracked record holding this item, if any.
FindIndex(recs, item) ==
  LET hits == {i \in 1..Len(recs) : recs[i].item = item}
  IN IF hits = {} THEN 0 ELSE CHOOSE i \in hits : \A j \in hits : i <= j

RECURSIVE SortedPrefix(_, _, _)
SortedPrefix(its, recs, n) ==
  IF n = 0 THEN <<>>
  ELSE LET sorted == SortedPrefix(its, recs, n - 1)
           found == FindIndex(recs, its[n])
       IN IF found = 0 THEN sorted ELSE Append(sorted, recs[found])

SortedAsTracked(its, recs) == recs

Sorted(its, recs) == SortedPrefix(its, recs, Len(its))

\* ------------------------------------------------------------------ state
VARIABLES
  items,              \* params.items
  concurrency,        \* params.concurrency
  pc,                 \* "idle", "running", "returned", "rejected", "finalized"
  groups,             \* Object.values(groupedItems), as batch positions
  gstate,             \* per group: "queued", "dispatched", "running", "returned", "done"
  idx,                \* per group: the loop index i of its mapper (1-based)
  started,            \* p-map: number of groups taken from the iterator
  resolvingCount,     \* p-map: mappers started and not yet finished
  call,               \* per position: "none", "pending", "ok", "rejected"
  raised,             \* per position: the value its process call rejected with
  unsortedUnprocessedRecords,
  unprocessedRecords, \* the returned, re-ordered records
  usePartialBatchResponses,
  outcome,            \* "none", "Threw", "ReturnedPartialList", "ReturnedNothing"
  errors,             \* the errors handed to AggregateError
  batchItemFailures,  \* the partial batch response
  handler,            \* the handler object: its kind, config and registered actions
  copy,               \* the handler built by harness(), NoHandler before
  event,              \* the event handed to the lambda
  lpc,                \* where the lambda is: "none", "start", "handling", "answered"
  response,           \* what withHealthCheckHandling answered, "none" otherwise
  runContexts,        \* the number of createRunContext calls
  cb,                 \* per position, where its process callback is
  invoked,            \* per position, the actions invoked for it, in order
  settled,            \* per position, the number of its actions that have settled
  steps,              \* some(...steps): what each step's operator emits
  subscribed,         \* some: the number of steps invoked and subscribed to
  emitted,            \* some: the values the merged stream has emitted
  result,             \* some: what the returned promise settled with
  second,             \* the locals of a second, interleaved processWithOrdering call
  logged,             \* the message bodies written to the log, with their log message
  keyObjects,         \* the dynamodb.Keys objects of the records handed to orderBy
  orderKeys,          \* the ordering keys orderBy returned for them, in order
  pages,              \* query: the table's answer, as the number of Items of each page
  pageStartKeys,      \* query: the value of the BehaviorSubject pageStartKeys
  noMoreItemsWillBeRequested, \* query: the value of that BehaviorSubject
  desiredItemAdjustments,     \* query: the value of that BehaviorSubject
  subjects,           \* query: the three subjects are "open", "completed", or "errored"
  desiredItemCount,   \* query: the total kept by scan since the subscription
  status,             \* query: the returned stream: "none", "unsubscribed", "open", "completed", "errored"
  buffer,             \* query: the start keys waiting in the first concatMap
  inFlight,           \* query: the start key of the page query in flight, NoQuery otherwise
  sourceDone,         \* query: the first concatMap has seen its source complete
  queries,            \* query: the start keys of the page queries issued, in order
  delivered,          \* query: the number of items the stream has emitted
  requested,          \* query: the sum of the values itemRequests has emitted
  requests,           \* query: itemRequests is "open", "completed" or "errored"
  dbFailed            \* query: a page query was rejected by the database

vars == <<items, concurrency, pc, groups, gstate, idx, started, resolvingCount,
          call, raised, unsortedUnprocessedRecords, unprocessedRecords,
          usePartialBatchResponses, outcome, errors, batchItemFailures,
          handler, copy, event, lpc, response, runContexts, cb, invoked, settled,
          steps, subscribed, emitted, result, second, logged,
          keyObjects, orderKeys,
          pages, pageStartKeys, noMoreItemsWillBeRequested, desiredItemAdjustments,
          subjects, desiredItemCount, status, buffer, inFlight, sourceDone, queries,
          delivered, requested, requests, dbFailed>>

\* The state of the engine, of a handler around it, and of a some() handler.
engineVars == <<items, concurrency, pc, groups, gstate, idx, started, resolvingCount,
                call, raised, unsortedUnprocessedRecords, unprocessedRecords,
                usePartialBatchResponses, outcome, errors, batchItemFailures>>

handlerVars == <<handler, copy, event, lpc, response, runContexts, cb, invoked, settled>>

someVars == <<steps, subscribed, emitted, result>>

keyVars == <<keyObjects, orderKeys>>

queryVars == <<pages, pageStartKeys, noMoreItemsWillBeRequested, desiredItemAdjustments,
               subjects, desiredItemCount, status, buffer, inFlight, sourceDone, queries,
               delivered, requested, requests, dbFailed>>

\* The parts that neither the engine nor a handler touches.
asideVars == <<keyVars, queryVars>>

outerVars == <<handlerVars, someVars, second, asideVars, logged>>

finalVars == <<usePartialBatchResponses, outcome, errors, batchItemFailures>>

\* The shape of the state.
TypeOK ==
  /\ items \in Seq(Items)
  /\ concurrency \in Nat \ {0}
  /\ pc \in {"idle", "running", "returned", "rejected", "finalized"}
  /\ \A g \in 1..Len(groups) : Range(groups[g]) \subseteq 1..Len(items)
  /\ \A g \in 1..Len(gstate) :
       gstate[g] \in {"queued", "dispatched", "running", "returned", "done"}
  /\ Len(gstate) = Len(groups) /\ Len(idx) = Len(groups)
  /\ started \in 0..Len(groups)
  /\ resolvingCount \in 0..concurrency
  /\ \A p \in 1..Len(items) : call[p] \in {"none", "pending", "ok", "rejected"}
  /\ \A p \in 1..Len(items) : raised[p] \in RejectionValues(p)
  /\ \A i \in 1..Len(unsortedUnprocessedRecords) :
       unsortedUnprocessedRecords[i].item \in Items
  /\ \A i \in 1..Len(unprocessedRecords) : unprocessedRecords[i].item \in Items
  /\ usePartialBatchResponses \in BOOLEAN
  /\ outcome \in {"none", "Threw", "ReturnedPartialList", "ReturnedNothing"}
  /\ Len(batchItemFailures) \in {0, Len(unprocessedRecords)}
  /\ Len(errors) <= Len(unprocessedRecords)

\* No handler object.
NoHandler == [kind |-> "none"]

\* The engine is called directly: there is no handler around it.
NoHandlerYet ==
  /\ handler = NoHandler
  /\ copy = NoHandler
  /\ event = [httpMethod |-> FALSE, healthCheck |-> FALSE]
  /\ lpc = "none"
  /\ response = "none"
  /\ runContexts = 0
  /\ cb = <<>>
  /\ invoked = <<>>
  /\ settled = <<>>

\* No some() handler has been called.
NoSomeYet ==
  /\ steps = <<>>
  /\ subscribed = 0
  /\ emitted = <<>>
  /\ result = <<"none", "">>

\* No second call of processWithOrdering is around.
NoSecondYet == second = [pc |-> "none"]

\* No key function has been called outside an invocation.
NoKeysYet == keyObjects = <<>> /\ orderKeys = <<>>

\* dynamodb.query has not been called.
NoQueryYet ==
  /\ pages = <<>>
  /\ pageStartKeys = <<"none", 0>>
  /\ noMoreItemsWillBeRequested = FALSE
  /\ desiredItemAdjustments = 0
  /\ subjects = "none"
  /\ desiredItemCount = 0
  /\ status = "none"
  /\ buffer = <<>>
  /\ inFlight = <<"none", 0>>
  /\ sourceDone = FALSE
  /\ queries = <<>>
  /\ delivered = 0
  /\ requested = 0
  /\ requests = "none"
  /\ dbFailed = FALSE

NoAsideYet == NoKeysYet /\ NoQueryYet

\* Nothing has been written to the log.
NothingLogged == logged = {}

\* Payloads are opaque, so a batch is taken up to renaming of the payloads of
\* each key: the first item of a key carries "x", and "y" marks a second,
\* different item of that key.  The same item may occur at several positions.
Canonical(its) ==
  \A p \in 1..Len(its) :
    its[p].v = "y" => \E q \in 1..(p - 1) : its[q] = [k |-> its[p].k, v |-> "x"]

Init ==
  /\ items \in {its \in SeqsUpTo(Items, MaxLen) : Canonical(its)}
  /\ concurrency \in 1..MaxConcurrency
  /\ pc = "idle"
  /\ groups = <<>>
  /\ gstate = <<>>
  /\ idx = <<>>
  /\ started = 0
  /\ resolvingCount = 0
  /\ call = [p \in 1..Len(items) |-> "none"]
  /\ raised = [p \in 1..Len(items) |-> Undefined]
  /\ unsortedUnprocessedRecords = <<>>
  /\ unprocessedRecords = <<>>
  /\ usePartialBatchResponses = FALSE
  /\ outcome = "none"
  /\ errors = <<>>
  /\ batchItemFailures = <<>>
  /\ NoHandlerYet
  /\ NoSomeYet
  /\ NoSecondYet
  /\ NoAsideYet
  /\ NothingLogged

\* ---------------------------------------------------------------- actions
\* The number of mappers p-map starts synchronously: its loop calls next()
\* `concurrency` times and stops early once the iterator is exhausted.
InitialAll(c, n) == n

\* A p-map whose start loop runs once whatever the concurrency.
InitialOne(c, n) == Min(1, n)

InitialCount(c, n) == Min(c, n)

\* Invoke with a p-map that resolves only from a finished mapper, so that an
\* empty list of groups never resolves.
InvokeNoEmptyResolve ==
  /\ pc = "idle"
  /\ LET gs == Groups(items)
         n == InitialCount(concurrency, Len(gs))
     IN /\ groups' = gs
        /\ gstate' = [g \in 1..Len(gs) |-> IF g <= n THEN "dispatched" ELSE "queued"]
        /\ idx' = [g \in 1..Len(gs) |-> 0]
        /\ started' = n
        /\ resolvingCount' = n
        /\ pc' = "running"
  /\ UNCHANGED <<items, concurrency, call, raised, unsortedUnprocessedRecords,
                 unprocessedRecords>>
  /\ UNCHANGED finalVars
  /\ UNCHANGED outerVars

\* processWithOrdering is called: the batch is grouped and p-map hands the
\* first groups to the mapper.  An empty batch resolves at once.
Invoke ==
  /\ pc = "idle"
  /\ LET gs == Groups(items)
         n == InitialCount(concurrency, Len(gs))
     IN /\ groups' = gs
        /\ gstate' = [g \in 1..Len(gs) |-> IF g <= n THEN "dispatched" ELSE "queued"]
        /\ idx' = [g \in 1..Len(gs) |-> 0]
        /\ started' = n
        /\ resolvingCount' = n
        /\ IF Len(gs) = 0
             THEN /\ pc' = "returned"
                  /\ unprocessedRecords' = Sorted(items, unsortedUnprocessedRecords)
             ELSE /\ pc' = "running"
                  /\ UNCHANGED unprocessedRecords
  /\ UNCHANGED <<items, concurrency, call, raised, unsortedUnprocessedRecords>>
  /\ UNCHANGED finalVars
  /\ UNCHANGED outerVars

\* The groups started by Invoke resume from p-map's first await before any
\* continuation of a process call can run (the microtask queue is FIFO).
InitialBurst ==
  \E g \in 1..Len(groups) :
    g <= InitialCount(concurrency, Len(groups)) /\ gstate[g] = "dispatched"

\* MapperStart for a p-map that invokes the mappers of the groups it has taken
\* in no particular order.
MapperStartUnordered(g) ==
  /\ pc = "running"
  /\ gstate[g] = "dispatched"
  /\ gstate' = [gstate EXCEPT ![g] = "running"]
  /\ idx' = [idx EXCEPT ![g] = 1]
  /\ call' = [call EXCEPT ![groups[g][1]] = "pending"]
  /\ UNCHANGED <<items, concurrency, pc, groups, started, resolvingCount, raised,
                 unsortedUnprocessedRecords, unprocessedRecords>>
  /\ UNCHANGED finalVars
  /\ UNCHANGED outerVars

\* p-map invokes the mapper for a group it has taken; the mapper enters its
\* loop and calls process for the group's first item.  Mappers start in the
\* order in which their groups were taken.
MapperStart(g) ==
  /\ pc = "running"
  /\ gstate[g] = "dispatched"
  /\ \A h \in 1..(g - 1) : gstate[h] # "dispatched"
  /\ gstate' = [gstate EXCEPT ![g] = "running"]
  /\ idx' = [idx EXCEPT ![g] = 1]
  /\ call' = [call EXCEPT ![groups[g][1]] = "pending"]
  /\ UNCHANGED <<items, concurrency, pc, groups, started, resolvingCount, raised,
                 unsortedUnprocessedRecords, unprocessedRecords>>
  /\ UNCHANGED finalVars
  /\ UNCHANGED outerVars

\* `await process(item)` resolves: the loop moves to the next item of the
\* group and calls process for it, or the mapper returns after the last one.
Resolve(g) ==
  /\ pc = "running"
  /\ ~InitialBurst
  /\ gstate[g] = "running"
  /\ LET group == groups[g]
         i == idx[g]
     IN /\ call[group[i]] = "pending"
        /\ IF i < Len(group)
             THEN /\ call' = [call EXCEPT ![group[i]] = "ok", ![group[i + 1]] = "pending"]
                  /\ idx' = [idx EXCEPT ![g] = i + 1]
                  /\ UNCHANGED gstate
             ELSE /\ call' = [call EXCEPT ![group[i]] = "ok"]
                  /\ gstate' = [gstate EXCEPT ![g] = "returned"]
                  /\ UNCHANGED idx
  /\ UNCHANGED <<items, concurrency, pc, groups, started, resolvingCount, raised,
                 unsortedUnprocessedRecords, unprocessedRecords>>
  /\ UNCHANGED finalVars
  /\ UNCHANGED outerVars

\* group.slice(i + 1).map((item) => ({ item }))
Collateral(group, i) ==
  [j \in 1..(Len(group) - i) |-> [item |-> items[group[i + j]], error |-> Undefined]]

\* Reject without the catch block's `return`: the loop goes on to the next
\* item of the group.
RejectAndContinue(g, e) ==
  /\ pc = "running"
  /\ ~InitialBurst
  /\ gstate[g] = "running"
  /\ LET group == groups[g]
         i == idx[g]
     IN /\ call[group[i]] = "pending"
        /\ e \in RejectionValues(group[i])
        /\ raised' = [raised EXCEPT ![group[i]] = e]
        /\ unsortedUnprocessedRecords' =
             Append(unsortedUnprocessedRecords, [item |-> items[group[i]], error |-> e])
               \o Collateral(group, i)
        /\ IF i < Len(group)
             THEN /\ call' = [call EXCEPT ![group[i]] = "rejected", ![group[i + 1]] = "pending"]
                  /\ idx' = [idx EXCEPT ![g] = i + 1]
                  /\ UNCHANGED gstate
             ELSE /\ call' = [call EXCEPT ![group[i]] = "rejected"]
                  /\ gstate' = [gstate EXCEPT ![g] = "returned"]
                  /\ UNCHANGED idx
  /\ UNCHANGED <<items, concurrency, pc, groups, started, resolvingCount,
                 unprocessedRecords>>
  /\ UNCHANGED finalVars
  /\ UNCHANGED outerVars

\* Reject without the try/catch: the error leaves the mapper, p-map rejects
\* and processWithOrdering rejects with it.
RejectUnhandled(g, e) ==
  /\ pc = "running"
  /\ ~InitialBurst
  /\ gstate[g] = "running"
  /\ LET group == groups[g]
         i == idx[g]
     IN /\ call[group[i]] = "pending"
        /\ e \in RejectionValues(group[i])
        /\ call' = [call EXCEPT ![group[i]] = "rejected"]
        /\ raised' = [raised EXCEPT ![group[i]] = e]
        /\ gstate' = [gstate EXCEPT ![g] = "returned"]
        /\ pc' = "rejected"
  /\ UNCHANGED <<items, concurrency, groups, idx, started, resolvingCount,
                 unsortedUnprocessedRecords, unprocessedRecords>>
  /\ UNCHANGED finalVars
  /\ UNCHANGED outerVars

\* `await process(item)` rejects with e: the catch block tracks the item
\* with its error, then every later item of the group, and returns.
Reject(g, e) ==
  /\ pc = "running"
  /\ ~InitialBurst
  /\ gstate[g] = "running"
  /\ LET group == groups[g]
         i == idx[g]
     IN /\ call[group[i]] = "pending"
        /\ e \in RejectionValues(group[i])
        /\ call' = [call EXCEPT ![group[i]] = "rejected"]
        /\ raised' = [raised EXCEPT ![group[i]] = e]
        /\ unsortedUnprocessedRecords' =
             Append(unsortedUnprocessedRecords, [item |-> items[group[i]], error |-> e])
               \o Collateral(group, i)
        /\ gstate' = [gstate EXCEPT ![g] = "returned"]
  /\ UNCHANGED <<items, concurrency, pc, groups, idx, started, resolvingCount,
                 unprocessedRecords>>
  /\ UNCHANGED finalVars
  /\ UNCHANGED outerVars

\* PMapNext that stops taking groups once a group has failed.
PMapNextStopOnError(g) ==
  /\ pc = "running"
  /\ gstate[g] = "returned"
  /\ IF started < Len(groups) /\ \A p \in 1..Len(items) : call[p] # "rejected"
       THEN /\ gstate' = [gstate EXCEPT ![g] = "done", ![started + 1] = "dispatched"]
            /\ started' = started + 1
            /\ UNCHANGED <<resolvingCount, pc, unprocessedRecords>>
       ELSE /\ gstate' = [gstate EXCEPT ![g] = "done"]
            /\ resolvingCount' = resolvingCount - 1
            /\ UNCHANGED started
            /\ IF resolvingCount - 1 = 0
                 THEN /\ pc' = "returned"
                      /\ unprocessedRecords' = Sorted(items, unsortedUnprocessedRecords)
                 ELSE UNCHANGED <<pc, unprocessedRecords>>
  /\ UNCHANGED <<items, concurrency, groups, idx, call, raised,
                 unsortedUnprocessedRecords>>
  /\ UNCHANGED finalVars
  /\ UNCHANGED outerVars

\* PMapNext that hands out the group it took last once more instead of the
\* following one.
PMapNextTakesSameGroup(g) ==
  /\ pc = "running"
  /\ gstate[g] = "returned"
  /\ IF started < Len(groups)
       THEN /\ gstate' = [gstate EXCEPT ![g] = "done", ![started] = "dispatched"]
            /\ started' = started + 1
            /\ UNCHANGED <<resolvingCount, pc, unprocessedRecords>>
       ELSE /\ gstate' = [gstate EXCEPT ![g] = "done"]
            /\ resolvingCount' = resolvingCount - 1
            /\ UNCHANGED started
            /\ IF resolvingCount - 1 = 0
                 THEN /\ pc' = "returned"
                      /\ unprocessedRecords' = Sorted(items, unsortedUnprocessedRecords)
                 ELSE UNCHANGED <<pc, unprocessedRecords>>
  /\ UNCHANGED <<items, concurrency, groups, idx, call, raised,
                 unsortedUnprocessedRecords>>
  /\ UNCHANGED finalVars
  /\ UNCHANGED outerVars

\* p-map's continuation after a mapper has returned: resolvingCount--, then
\* next() takes the following group if there is one; when the iterator is
\* exhausted and no mapper is left, p-map resolves and processWithOrdering
\* re-orders the tracked records and returns.
PMapNext(g) ==
  /\ pc = "running"
  /\ gstate[g] = "returned"
  /\ IF started < Len(groups)
       THEN /\ gstate' = [gstate EXCEPT ![g] = "done", ![started + 1] = "dispatched"]
            /\ started' = started + 1
            /\ UNCHANGED <<resolvingCount, pc, unprocessedRecords>>
       ELSE /\ gstate' = [gstate EXCEPT ![g] = "done"]
            /\ resolvingCount' = resolvingCount - 1
            /\ UNCHANGED started
            /\ IF resolvingCount - 1 = 0
                 THEN /\ pc' = "returned"
                      /\ unprocessedRecords' = Sorted(items, unsortedUnprocessedRecords)
                 ELSE UNCHANGED <<pc, unprocessedRecords>>
  /\ UNCHANGED <<items, concurrency, groups, idx, call, raised,
                 unsortedUnprocessedRecords>>
  /\ UNCHANGED finalVars
  /\ UNCHANGED outerVars

\* ---------------------------------------------------------------- logging
\* A log entry is kept as its message and the body (or what stands for it)
\* among its fields.  The body of a record is its payload.
Body(item) == item.v

\* publicEncrypt(publicEncryptionKey, Buffer.from(body)).toString('base64')
PublicEncrypt(body) == "base64(rsa(" \o body \o "))"

EncryptionFailed == "[ENCRYPTION FAILED]"

RedactionFailed == "[REDACTION FAILED]"

\* What redactMessageBody returns when it does not throw.
Redacted == "REDACTED"

\* A safeRedactor that gives the body back when the redaction fails.
SafeRedactorKeepingBody(rc, body) ==
  IF rc.redactMessageBody = "redacts"
    THEN [body |-> Redacted, logs |-> {}]
    ELSE [body |-> body, logs |-> {<<"Failed to redact message body", body>>}]

\* safeRedactor(logger, redactionConfig)(body): the redacted body and what
\* the call writes to the log.  When redactMessageBody throws, the body is
\* encrypted and logged with the redaction error; when the encryption throws
\* too, that error is logged and the encrypted body is replaced.
SafeRedactor(rc, body) ==
  IF rc.redactMessageBody = "redacts"
    THEN [body |-> Redacted, logs |-> {}]
    ELSE IF rc.publicEncryptionKey = "valid"
      THEN [body |-> RedactionFailed,
            logs |-> {<<"Failed to redact message body", PublicEncrypt(body)>>}]
      ELSE [body |-> RedactionFailed,
            logs |-> {<<"Failed to encrypt message body", "[error]">>,
                      <<"Failed to redact message body", EncryptionFailed>>}]

\* this.config.redactionConfig of an SQS handler; the other callers of
\* handleUnprocessedRecords pass no redactRecord.
RedactionOf(h) == IF h.kind = "sqs" THEN h.config.redactionConfig ELSE Undefined

\* Logging redactRecord(record) under a message, or the record itself
\* without a redactor.
LogRecord(h, message, item) ==
  IF RedactionOf(h) = Undefined
    THEN {<<message, Body(item)>>}
    ELSE LET redacted == SafeRedactor(RedactionOf(h)[2], Body(item))
         IN {<<message, redacted.body>>} \cup redacted.logs

\* logger.info({ event: redactedEvent }, 'Processing SQS topic message')
EventLog(h, its) ==
  UNION {LogRecord(h, "Processing SQS topic message", its[p]) : p \in 1..Len(its)}

\* The 'Failed to process record' lines of handleUnprocessedRecords: one for
\* each record with a truthy error.
FailedRecordLog(h, recs) ==
  UNION {LogRecord(h, "Failed to process record", recs[i].item) :
           i \in {j \in 1..Len(recs) : recs[j].error # Undefined}}

\* ----------------------------------------------------------- finalisation
\* Identifiers pushed only for the records that carry an error.
IdentifiersOfErrors(recs) ==
  LET Carries(rec) == rec.error # Undefined
      kept == SelectSeq(recs, Carries)
  IN [i \in 1..Len(kept) |-> [itemIdentifier |-> getItemIdentifier(kept[i].item)]]

\* The loop of handleUnprocessedRecords over the unprocessed records.
Identifiers(recs) ==
  [i \in 1..Len(recs) |-> [itemIdentifier |-> getItemIdentifier(recs[i].item)]]

\* `if (error)`: undefined is falsy, an Error object is truthy.
Truthy(e) == e # Undefined

HasTruthyError(rec) == Truthy(rec.error)

Errors(recs) ==
  LET kept == SelectSeq(recs, HasTruthyError)
  IN [i \in 1..Len(kept) |-> kept[i].error]

ThrowsIfErrors(partial, recs) == ~partial /\ Len(Errors(recs)) > 0

Throws(partial, recs) == ~partial

\* Finalize without the early return on an empty list.
FinalizeNoEmptyCheck(partial) ==
  /\ pc = "returned"
  /\ pc' = "finalized"
  /\ usePartialBatchResponses' = partial
  /\ batchItemFailures' = Identifiers(unprocessedRecords)
  /\ errors' = Errors(unprocessedRecords)
  /\ outcome' = IF Throws(partial, unprocessedRecords)
                  THEN "Threw" ELSE "ReturnedPartialList"
  /\ UNCHANGED <<items, concurrency, groups, gstate, idx, started, resolvingCount,
                 call, raised, unsortedUnprocessedRecords, unprocessedRecords>>
  /\ logged' = logged \cup FailedRecordLog(handler, unprocessedRecords)
  /\ UNCHANGED <<handlerVars, someVars, second, asideVars>>

\* Finalize that retries the failed records: it calls process for them again.
FinalizeRetrying(partial) ==
  /\ pc = "returned"
  /\ pc' = "finalized"
  /\ usePartialBatchResponses' = partial
  /\ call' = [p \in 1..Len(items) |-> IF call[p] = "rejected" THEN "pending" ELSE call[p]]
  /\ IF Len(unprocessedRecords) = 0
       THEN /\ outcome' = "ReturnedNothing"
            /\ UNCHANGED <<errors, batchItemFailures>>
       ELSE /\ batchItemFailures' = Identifiers(unprocessedRecords)
            /\ errors' = Errors(unprocessedRecords)
            /\ outcome' = IF Throws(partial, unprocessedRecords)
                            THEN "Threw" ELSE "ReturnedPartialList"
  /\ UNCHANGED <<items, concurrency, groups, gstate, idx, started, resolvingCount,
                 raised, unsortedUnprocessedRecords, unprocessedRecords>>
  /\ logged' = logged \cup FailedRecordLog(handler, unprocessedRecords)
  /\ UNCHANGED <<handlerVars, someVars, second, asideVars>>

\* handleUnprocessedRecords, called by the handler with the returned records.
Finalize(partial) ==
  /\ pc = "returned"
  /\ pc' = "finalized"
  /\ usePartialBatchResponses' = partial
  /\ IF Len(unprocessedRecords) = 0
       THEN /\ outcome' = "ReturnedNothing"
            /\ UNCHANGED <<errors, batchItemFailures>>
       ELSE /\ batchItemFailures' = Identifiers(unprocessedRecords)
            /\ errors' = Errors(unprocessedRecords)
            /\ outcome' = IF Throws(partial, unprocessedRecords)
                            THEN "Threw" ELSE "ReturnedPartialList"
  /\ UNCHANGED <<items, concurrency, groups, gstate, idx, started, resolvingCount,
                 call, raised, unsortedUnprocessedRecords, unprocessedRecords>>
  /\ logged' = logged \cup FailedRecordLog(handler, unprocessedRecords)
  /\ UNCHANGED <<handlerVars, someVars, second, asideVars>>

Next ==
  \/ Invoke
  \/ \E g \in 1..Len(groups) : MapperStart(g)
  \/ \E g \in 1..Len(groups) : Resolve(g)
  \/ \E g \in 1..Len(groups) :
       \E e \in UNION {RejectionValues(p) : p \in 1..Len(items)} : Reject(g, e)
  \/ \E g \in 1..Len(groups) : PMapNext(g)
  \/ \E partial \in BOOLEAN : Finalize(partial)

Spec == Init /\ [][Next]_vars

\* The steps the engine takes by itself: p-map's continuations and the
\* settling of the pending process calls.
SchedulerStep == \E g \in 1..Len(groups) : MapperStart(g) \/ PMapNext(g)

SettleStep ==
  \E g \in 1..Len(groups) :
    \/ Resolve(g)
    \/ \E e \in UNION {RejectionValues(p) : p \in 1..Len(items)} : Reject(g, e)

\* Continuations queued on the event loop are run, and every process call
\* settles.
LiveSpec == Spec /\ WF_vars(SchedulerStep \/ SettleStep)

\* ------------------------------------------------- further specifications
\* The state of the engine before the call, for a batch drawn from `batches`.
InitEngine(batches) ==
  /\ items \in {its \in batches : Canonical(its)}
  /\ concurrency \in 1..MaxConcurrency
  /\ pc = "idle"
  /\ groups = <<>>
  /\ gstate = <<>>
  /\ idx = <<>>
  /\ started = 0
  /\ resolvingCount = 0
  /\ call = [p \in 1..Len(items) |-> "none"]
  /\ raised = [p \in 1..Len(items) |-> Undefined]
  /\ unsortedUnprocessedRecords = <<>>
  /\ unprocessedRecords = <<>>
  /\ usePartialBatchResponses = FALSE
  /\ outcome = "none"
  /\ errors = <<>>
  /\ batchItemFailures = <<>>

\* The state before a call of the engine without a handler.
InitOver(batches) ==
  InitEngine(batches) /\ NoHandlerYet /\ NoSomeYet /\ NoSecondYet /\ NoAsideYet /\ NothingLogged

\* The Grouper alone, over a wider set of keys: two array-index keys, two
\* other keys, and records without a key.
GrouperRecords == [k : Keys \cup {"b", NoKey}, v : Payloads]

InitGrouper == InitOver(SeqsUpTo(GrouperRecords, MaxLen))

NextGrouper == Invoke

SpecGrouper == InitGrouper /\ [][NextGrouper]_vars

\* A handler invocation over SQS records with and without a MessageGroupId.
SqsRecords == [k : {"a", NoKey}, v : Payloads]

InitKeyless == InitOver(SeqsUpTo(SqsRecords, MaxLen))

SpecKeyless == InitKeyless /\ [][Next]_vars

\* ------------------------------------------------------------- handlers
\* A handler wraps the engine: lambda() answers health checks, parses each
\* record and invokes the registered actions for it inside the process
\* callback, and finalises the returned records.
MaxRecords == 2

\* `concurrency: this.config.concurrency ?? 5`
DefaultConcurrency == 5

\* An option that was given, with its value; Undefined is one that was not.
Given(v) == <<"given", v>>

\* a ?? b
Coalesce(a, b) == IF a = Undefined THEN b ELSE a

\* !!this.config.usePartialBatchResponses
DoubleBang(option) == option = Given(TRUE)

\* The config of a handler that the lambda reads.
Config(c, partial, ignore) ==
  [logger |-> Given("logger"), createRunContext |-> Given("createRunContext"),
   parse |-> Given("parse"), concurrency |-> c, usePartialBatchResponses |-> partial,
   ignoreUnparseable |-> ignore, loggerObfuscateImageKeys |-> Undefined,
   redactionConfig |-> Undefined]

ConcurrencyOptions == {Undefined, Given(1)}

FlagOptions == {Undefined, Given(TRUE)}

\* Handlers with their actions registered: two actions on an SQS or Kinesis
\* handler, and two, one and no action for the INSERT, MODIFY and REMOVE
\* events of a DynamoDB stream handler.
LambdaHandlers ==
  {[kind |-> k, config |-> Config(c, partial, ignore), actions |-> <<"first", "second">>] :
     k \in {"sqs", "kinesis"}, c \in ConcurrencyOptions,
     partial \in FlagOptions, ignore \in FlagOptions}
  \cup
  {[kind |-> "dynamo", config |-> Config(c, Undefined, Undefined),
    actions |-> [INSERT |-> <<"first", "second">>, MODIFY |-> <<"first">>,
                 REMOVE |-> <<>>]] : c \in ConcurrencyOptions}

\* SQS message bodies and Kinesis data: one that parses and one that does not.
Bodies == {"json", "not-json"}

\* this.config.parseMessage(record.body), this.config.parseEvent(...): throws
\* on a body that is not JSON.
ParseThrows(body) == body = "not-json"

\* DynamoDB stream records: the ones harness() builds, and the malformed ones
\* of the tests.  Images, when present, parse.
Shape(name, hasDynamodb, old, new) ==
  [eventName |-> name, dynamodb |-> hasDynamodb, OldImage |-> old, NewImage |-> new]

DynamoShapes ==
  {Shape("INSERT", TRUE, FALSE, TRUE), Shape("MODIFY", TRUE, TRUE, TRUE),
   Shape("REMOVE", TRUE, TRUE, FALSE),
   Shape("INSERT", TRUE, FALSE, FALSE), Shape("MODIFY", TRUE, TRUE, FALSE),
   Shape("MODIFY", TRUE, FALSE, TRUE), Shape("REMOVE", TRUE, FALSE, FALSE)}

RecordKeys == {"a", "b"}

\* The records a handler of each kind receives.  A DynamoDB record without a
\* dynamodb property has no Keys either.
RecordsOfKind(kind) ==
  IF kind = "dynamo"
    THEN [k : RecordKeys, v : DynamoShapes]
           \cup {[k |-> NoKey, v |-> Shape("INSERT", FALSE, FALSE, FALSE)]}
    ELSE [k : RecordKeys, v : Bodies]

\* Malformed without the checks of the images.
MalformedNoDynamodbOnly(shape) == ~shape.dynamodb

\* The checks of the DynamoDB process callback that log and return.
Malformed(shape) ==
  \/ ~shape.dynamodb
  \/ shape.eventName = "INSERT" /\ ~shape.NewImage
  \/ shape.eventName = "MODIFY" /\ (~shape.OldImage \/ ~shape.NewImage)
  \/ shape.eventName = "REMOVE" /\ ~shape.OldImage

\* The actions the process callback loops over for a record.
ActionsFor(h, item) ==
  IF h.kind = "dynamo" THEN h.actions[item.v.eventName] ELSE h.actions

\* Disposition of a handler that has no ignore option: a record that fails
\* to parse always fails.
DispositionNoIgnore(h, item) ==
  CASE h.kind \in {"sqs", "kinesis"} -> IF ParseThrows(item.v) THEN "throw" ELSE "act"
    [] OTHER -> IF Malformed(item.v) THEN "skip" ELSE "act"

\* What the callback does with a record before any action: "skip" returns
\* without an action, "throw" rejects, "act" goes on to the actions.
Disposition(h, item) ==
  CASE h.kind = "sqs" ->
         IF ParseThrows(item.v)
           THEN IF h.config.ignoreUnparseable = Given(TRUE) THEN "skip" ELSE "throw"
           ELSE "act"
    [] h.kind = "kinesis" -> IF ParseThrows(item.v) THEN "throw" ELSE "act"
    [] OTHER -> IF Malformed(item.v) THEN "skip" ELSE "act"

\* withHealthCheckHandling's answers.
NoResponse == [answered |-> FALSE]

HttpHealthy == [answered |-> TRUE, statusCode |-> 200, body |-> "{\"healthy\":true}"]

Healthy == [answered |-> TRUE, healthy |-> TRUE]

Events == [httpMethod : BOOLEAN, healthCheck : BOOLEAN]

\* The records of an event are distinct objects, whatever they hold.
Distinct(recs) == [p \in 1..Len(recs) |-> [k |-> recs[p].k, v |-> recs[p].v, id |-> p]]

\* One of the given handlers has been built and its lambda is about to be
\* called with an event of up to MaxRecords records.
InitLambda(handlers) ==
  /\ handler \in handlers
  /\ copy = NoHandler
  /\ event \in Events
  /\ items \in {Distinct(recs) : recs \in SeqsUpTo(RecordsOfKind(handler.kind), MaxRecords)}
  /\ concurrency = Coalesce(handler.config.concurrency, Given(DefaultConcurrency))[2]
  /\ lpc = "start"
  /\ response = NoResponse
  /\ runContexts = 0
  /\ cb = [p \in 1..Len(items) |-> "none"]
  /\ invoked = [p \in 1..Len(items) |-> <<>>]
  /\ settled = [p \in 1..Len(items) |-> 0]
  /\ pc = "idle"
  /\ groups = <<>>
  /\ gstate = <<>>
  /\ idx = <<>>
  /\ started = 0
  /\ resolvingCount = 0
  /\ call = [p \in 1..Len(items) |-> "none"]
  /\ raised = [p \in 1..Len(items) |-> Undefined]
  /\ unsortedUnprocessedRecords = <<>>
  /\ unprocessedRecords = <<>>
  /\ usePartialBatchResponses = FALSE
  /\ outcome = "none"
  /\ errors = <<>>
  /\ batchItemFailures = <<>>
  /\ NoSomeYet
  /\ NoSecondYet
  /\ NoAsideYet
  /\ NothingLogged

InitHandler == InitLambda(LambdaHandlers)

\* LambdaCall with a wrapper that looks for httpMethod only.
LambdaCallHttpOnly ==
  /\ lpc = "start"
  /\ IF event.httpMethod
       THEN /\ response' = HttpHealthy
            /\ lpc' = "answered"
            /\ UNCHANGED runContexts
       ELSE /\ lpc' = "handling"
            /\ runContexts' = IF handler.kind = "sqs" THEN runContexts ELSE runContexts + 1
            /\ UNCHANGED response
  /\ UNCHANGED <<handler, copy, event, cb, invoked, settled>>
  /\ logged' = IF ~event.httpMethod /\ handler.kind = "sqs"
                 THEN logged \cup EventLog(handler, items) ELSE logged
  /\ UNCHANGED <<engineVars, someVars, second, asideVars>>

\* The lambda is called.  withHealthCheckHandling answers an event with an
\* httpMethod or a healthCheck property itself; any other event goes to the
\* handler, and the Kinesis and DynamoDB handlers create the run context
\* before they process the records.
LambdaCall ==
  /\ lpc = "start"
  /\ IF event.httpMethod
       THEN /\ response' = HttpHealthy
            /\ lpc' = "answered"
            /\ UNCHANGED runContexts
       ELSE IF event.healthCheck
         THEN /\ response' = Healthy
              /\ lpc' = "answered"
              /\ UNCHANGED runContexts
         ELSE /\ lpc' = "handling"
              /\ runContexts' = IF handler.kind = "sqs" THEN runContexts ELSE runContexts + 1
              /\ UNCHANGED response
  /\ UNCHANGED <<handler, copy, event, cb, invoked, settled>>
  /\ logged' = IF ~event.httpMethod /\ ~event.healthCheck /\ handler.kind = "sqs"
                 THEN logged \cup EventLog(handler, items) ELSE logged
  /\ UNCHANGED <<engineVars, someVars, second, asideVars>>

\* The handler calls processWithOrdering with the event's records.
HandlerInvoke == lpc = "handling" /\ Invoke

\* CallbackStart that invokes all the actions at once, as Promise.all over
\* the actions would.
CallbackStartAllAtOnce(p) ==
  /\ pc = "running"
  /\ call[p] = "pending"
  /\ cb[p] = "none"
  /\ LET d == Disposition(handler, items[p])
         acts == ActionsFor(handler, items[p])
     IN /\ runContexts' = IF d = "act" /\ handler.kind = "sqs"
                            THEN runContexts + 1 ELSE runContexts
        /\ IF d = "act" /\ Len(acts) > 0
             THEN /\ invoked' = [invoked EXCEPT ![p] = acts]
                  /\ cb' = [cb EXCEPT ![p] = "awaiting"]
             ELSE /\ cb' = [cb EXCEPT ![p] = IF d = "throw" THEN "threw" ELSE "returned"]
                  /\ UNCHANGED invoked
  /\ UNCHANGED <<handler, copy, event, lpc, response, settled>>
  /\ UNCHANGED <<engineVars, someVars, second, asideVars, logged>>

\* process(record) runs up to its first await: the record is parsed or
\* checked; the SQS handler creates the run context of the message; then the
\* first action is invoked.
CallbackStart(p) ==
  /\ pc = "running"
  /\ call[p] = "pending"
  /\ cb[p] = "none"
  /\ LET d == Disposition(handler, items[p])
         acts == ActionsFor(handler, items[p])
     IN /\ runContexts' = IF d = "act" /\ handler.kind = "sqs"
                            THEN runContexts + 1 ELSE runContexts
        /\ IF d = "act" /\ Len(acts) > 0
             THEN /\ invoked' = [invoked EXCEPT ![p] = <<acts[1]>>]
                  /\ cb' = [cb EXCEPT ![p] = "awaiting"]
             ELSE /\ cb' = [cb EXCEPT ![p] = IF d = "throw" THEN "threw" ELSE "returned"]
                  /\ UNCHANGED invoked
  /\ UNCHANGED <<handler, copy, event, lpc, response, settled>>
  /\ UNCHANGED <<engineVars, someVars, second, asideVars, logged>>

\* `await action(...)` settles: on success the loop invokes the next action,
\* or the callback returns after the last one; a rejection leaves the loop
\* and the callback.
ActionSettles(p, ok) ==
  /\ pc = "running"
  /\ cb[p] = "awaiting"
  /\ settled' = [settled EXCEPT ![p] = settled[p] + 1]
  /\ LET acts == ActionsFor(handler, items[p])
         n == Len(invoked[p])
     IN IF ~ok
          THEN /\ cb' = [cb EXCEPT ![p] = "threw"]
               /\ UNCHANGED invoked
          ELSE IF n < Len(acts)
            THEN /\ invoked' = [invoked EXCEPT ![p] = Append(invoked[p], acts[n + 1])]
                 /\ UNCHANGED cb
            ELSE /\ cb' = [cb EXCEPT ![p] = "returned"]
                 /\ UNCHANGED invoked
  /\ UNCHANGED <<handler, copy, event, lpc, response, runContexts>>
  /\ UNCHANGED <<engineVars, someVars, second, asideVars, logged>>

\* The engine's await of process(record) settles as the callback did.
CallbackResolves(g) == Resolve(g) /\ cb[groups[g][idx[g]]] = "returned"

CallbackRejects(g, e) == Reject(g, e) /\ cb[groups[g][idx[g]]] = "threw"

\* The handler hands the returned records to handleUnprocessedRecords; the
\* DynamoDB handler throws if there is any.
UsePartial(h) == h.kind # "dynamo" /\ DoubleBang(h.config.usePartialBatchResponses)

HandlerFinalize == lpc = "handling" /\ Finalize(UsePartial(handler))

NextHandler ==
  \/ LambdaCall
  \/ HandlerInvoke
  \/ \E g \in 1..Len(groups) : MapperStart(g)
  \/ \E p \in 1..Len(items) : CallbackStart(p)
  \/ \E p \in 1..Len(items) : \E ok \in BOOLEAN : ActionSettles(p, ok)
  \/ \E g \in 1..Len(groups) : CallbackResolves(g)
  \/ \E g \in 1..Len(groups) :
       \E e \in UNION {RejectionValues(p) : p \in 1..Len(items)} : CallbackRejects(g, e)
  \/ \E g \in 1..Len(groups) : PMapNext(g)
  \/ HandlerFinalize

SpecHandler == InitHandler /\ [][NextHandler]_vars

\* SQS handlers with a redactionConfig: redactMessageBody redacts or throws,
\* and the public encryption key is a valid key or not.
RedactionConfigs ==
  [redactMessageBody : {"redacts", "throws"}, publicEncryptionKey : {"valid", "not-a-valid-key"}]

RedactingHandlers ==
  {[kind |-> "sqs",
    config |-> [Config(c, partial, Undefined) EXCEPT !.redactionConfig = Given(rc)],
    actions |-> <<"first">>] :
     c \in ConcurrencyOptions, partial \in FlagOptions, rc \in RedactionConfigs}

InitRedaction == InitLambda(RedactingHandlers)

SpecRedaction == InitRedaction /\ [][NextHandler]_vars

\* -------------------------------------------------------------- harness
\* Handlers are built by chaining onMessage / onEvent / onInsert / onModify /
\* onRemove, and harness() makes a copy of the handler for tests.
MaxActions == 2

ActionNames == {"first", "second"}

\* A new handler has no action.
NoActions(kind) ==
  IF kind = "dynamo" THEN [INSERT |-> <<>>, MODIFY |-> <<>>, REMOVE |-> <<>>] ELSE <<>>

\* The event types actions are registered for.
EventTypes(kind) == IF kind = "dynamo" THEN {"INSERT", "MODIFY", "REMOVE"} ELSE {"any"}

BuiltHandlers ==
  {[kind |-> k,
    config |-> [Config(c, partial, ignore) EXCEPT !.loggerObfuscateImageKeys = keys],
    actions |-> NoActions(k)] :
     k \in {"sqs", "kinesis", "dynamo"}, c \in ConcurrencyOptions,
     partial \in FlagOptions, ignore \in FlagOptions,
     keys \in {Undefined, Given("api-secret")}}

\* The number of actions registered on a handler.
Registered(h) ==
  IF h.kind = "dynamo"
    THEN Len(h.actions.INSERT) + Len(h.actions.MODIFY) + Len(h.actions.REMOVE)
    ELSE Len(h.actions)

\* this.messageActions.push(action); this.actions.insert.push(action); ...
Push(h, type, a) ==
  IF h.kind = "dynamo"
    THEN [h EXCEPT !.actions[type] = Append(h.actions[type], a)]
    ELSE [h EXCEPT !.actions = Append(h.actions, a)]

\* for (const action of list) { copy = copy.on...(action) }
RECURSIVE Replay(_, _, _)
Replay(h, type, list) ==
  IF list = <<>> THEN h ELSE Replay(Push(h, type, Head(list)), type, Tail(list))

\* What harness() can be given besides the serializer.
Overrides ==
  [logger : {Undefined, Given("mock logger")},
   createRunContext : {Undefined, Given("mock context")}]

\* { ...this.config, ...overrides }
Spread(config, overrides) ==
  [config EXCEPT !.logger = IF overrides.logger = Undefined THEN @ ELSE overrides.logger,
                 !.createRunContext = IF overrides.createRunContext = Undefined
                                        THEN @ ELSE overrides.createRunContext]

\* The config the DynamoDB withOverrides hands to the constructor of the copy.
PickedConfig(config, overrides) ==
  [logger |-> Coalesce(overrides.logger, config.logger),
   createRunContext |-> Coalesce(overrides.createRunContext, config.createRunContext),
   parse |-> config.parse,
   concurrency |-> Undefined, usePartialBatchResponses |-> Undefined,
   ignoreUnparseable |-> Undefined, loggerObfuscateImageKeys |-> Undefined,
   redactionConfig |-> Undefined]

\* The copy built by harness() / withOverrides.
HarnessCopy(h, overrides) ==
  IF h.kind = "dynamo"
    THEN LET fresh == [kind |-> "dynamo", config |-> PickedConfig(h.config, overrides),
                       actions |-> NoActions("dynamo")]
         IN Replay(Replay(Replay(fresh, "INSERT", h.actions.INSERT),
                          "MODIFY", h.actions.MODIFY),
                   "REMOVE", h.actions.REMOVE)
    ELSE Replay([kind |-> h.kind, config |-> Spread(h.config, overrides),
                 actions |-> NoActions(h.kind)], "any", h.actions)

\* A handler has been constructed; nothing is registered, nothing has run.
InitHarness ==
  /\ handler \in BuiltHandlers
  /\ copy = NoHandler
  /\ event = [httpMethod |-> FALSE, healthCheck |-> FALSE]
  /\ lpc = "none"
  /\ response = NoResponse
  /\ runContexts = 0
  /\ cb = <<>>
  /\ invoked = <<>>
  /\ settled = <<>>
  /\ InitEngine({<<>>})
  /\ concurrency = 1
  /\ NoSomeYet
  /\ NoSecondYet
  /\ NoAsideYet
  /\ NothingLogged

\* An action is registered on the handler.
OnAction(type, a) ==
  /\ type \in EventTypes(handler.kind)
  /\ Registered(handler) < MaxActions
  /\ handler' = Push(handler, type, a)
  /\ UNCHANGED <<copy, event, lpc, response, runContexts, cb, invoked, settled>>
  /\ UNCHANGED <<engineVars, someVars, second, asideVars, logged>>

\* harness(options) copies the handler.
Harness(overrides) ==
  /\ copy = NoHandler
  /\ copy' = HarnessCopy(handler, overrides)
  /\ UNCHANGED <<handler, event, lpc, response, runContexts, cb, invoked, settled>>
  /\ UNCHANGED <<engineVars, someVars, second, asideVars, logged>>

NextHarness ==
  \/ \E type \in {"any", "INSERT", "MODIFY", "REMOVE"} : \E a \in ActionNames : OnAction(type, a)
  \/ \E overrides \in Overrides : Harness(overrides)

SpecHarness == InitHarness /\ [][NextHarness]_vars

\* ----------------------------------------------------------------- some
\* some(...operatorFactories) returns a handler that maps every factory to
\* its operator, applies each to the event, merges what they emit and turns
\* the merged stream into a promise.
MaxSteps == 3

\* What the operator of a step emits for the event: a value, or nothing.
StepOutcomes == {"nothing", "hello", "goodbye"}

Pending == <<"pending", "">>

Resolved(v) == <<"resolved", v>>

Failure(name) == <<"rejected", name>>

\* throwIfEmpty() without an error factory
EmptyError == "EmptyError"

InitSome ==
  /\ steps \in SeqsUpTo(StepOutcomes, MaxSteps)
  /\ subscribed = 0
  /\ emitted = <<>>
  /\ result = Pending
  /\ NoHandlerYet
  /\ NoSecondYet
  /\ NoAsideYet
  /\ NothingLogged
  /\ InitEngine({<<>>})
  /\ concurrency = 1

\* rxjs.from(operatorFactories) delivers the next factory: it is called with
\* the context, its operator is applied to the event and mergeAll subscribes
\* to it; whatever it emits goes down the merged stream.
SomeSubscribe ==
  /\ result = Pending
  /\ subscribed < Len(steps)
  /\ subscribed' = subscribed + 1
  /\ emitted' = IF steps[subscribed + 1] = "nothing"
                  THEN emitted ELSE Append(emitted, steps[subscribed + 1])
  /\ UNCHANGED <<steps, result>>
  /\ UNCHANGED <<engineVars, handlerVars, second, asideVars, logged>>

\* Every factory was delivered and every inner stream has completed:
\* throwIfEmpty errors on an empty stream, and toPromise resolves with the
\* last value emitted.
SomeComplete ==
  /\ result = Pending
  /\ subscribed = Len(steps)
  /\ result' = IF emitted = <<>> THEN Failure(EmptyError)
                                 ELSE Resolved(emitted[Len(emitted)])
  /\ UNCHANGED <<steps, subscribed, emitted>>
  /\ UNCHANGED <<engineVars, handlerVars, second, asideVars, logged>>

NextSome == SomeSubscribe \/ SomeComplete

SpecSome == InitSome /\ [][NextSome]_vars

\* ------------------------------------------------- interleaved invocations
\* A second call of processWithOrdering, over a batch of one item, runs in
\* the same process while the first one does.  Its locals are `second`.
SecondItems == {[k |-> "a", v |-> "x"], [k |-> "z", v |-> "x"]}

InitInterleaved ==
  /\ InitEngine(SeqsUpTo([k : {"a", "2"}, v : {"x"}], MaxLen))
  /\ NoHandlerYet
  /\ NoSomeYet
  /\ NoAsideYet
  /\ NothingLogged
  /\ \E item \in SecondItems :
       second = [pc |-> "idle", items |-> <<item>>, call |-> "none",
                 unsortedUnprocessedRecords |-> <<>>, unprocessedRecords |-> <<>>]

\* The second call starts: its tracking list is a fresh empty array, its one
\* group is handed to the mapper, which calls process for the item.
SecondInvoke ==
  /\ second.pc = "idle"
  /\ second' = [second EXCEPT !.pc = "running", !.call = "pending",
                              !.unsortedUnprocessedRecords = <<>>]
  /\ UNCHANGED <<engineVars, handlerVars, someVars, asideVars, logged>>

\* The process call of the second invocation resolves.
SecondResolves ==
  /\ second.pc = "running" /\ second.call = "pending"
  /\ second' = [second EXCEPT !.call = "ok"]
  /\ UNCHANGED <<engineVars, handlerVars, someVars, asideVars, logged>>

\* SecondRejects with a tracking list that lives at module level, shared by
\* all invocations.
SecondRejectsShared(e) ==
  /\ second.pc = "running" /\ second.call = "pending"
  /\ second' = [second EXCEPT !.call = "rejected"]
  /\ unsortedUnprocessedRecords' =
       Append(unsortedUnprocessedRecords, [item |-> second.items[1], error |-> e])
  /\ UNCHANGED <<items, concurrency, pc, groups, gstate, idx, started, resolvingCount,
                 call, raised, unprocessedRecords>>
  /\ UNCHANGED <<finalVars, handlerVars, someVars, asideVars, logged>>

\* The process call of the second invocation rejects: its catch block tracks
\* the item in its own list.
SecondRejects(e) ==
  /\ second.pc = "running" /\ second.call = "pending"
  /\ second' = [second EXCEPT
       !.call = "rejected",
       !.unsortedUnprocessedRecords =
          Append(second.unsortedUnprocessedRecords, [item |-> second.items[1], error |-> e])]
  /\ UNCHANGED <<engineVars, handlerVars, someVars, asideVars, logged>>

\* The second call re-orders its tracked records and returns.
SecondReturns ==
  /\ second.pc = "running" /\ second.call \in {"ok", "rejected"}
  /\ second' = [second EXCEPT
       !.pc = "returned",
       !.unprocessedRecords = Sorted(second.items, second.unsortedUnprocessedRecords)]
  /\ UNCHANGED <<engineVars, handlerVars, someVars, asideVars, logged>>

NextInterleaved ==
  \/ Invoke
  \/ \E g \in 1..Len(groups) : MapperStart(g)
  \/ \E g \in 1..Len(groups) : Resolve(g)
  \/ \E g \in 1..Len(groups) :
       \E e \in UNION {RejectionValues(p) : p \in 1..Len(items)} : Reject(g, e)
  \/ \E g \in 1..Len(groups) : PMapNext(g)
  \/ SecondInvoke
  \/ SecondResolves
  \/ \E e \in {Undefined, ErrorAt(0)} : SecondRejects(e)
  \/ SecondReturns

SpecInterleaved == InitInterleaved /\ [][NextInterleaved]_vars

\* ------------------------------------------------- DynamoDB ordering key
\* orderBy of the DynamoDB stream handler.  A Keys object is kept as the
\* sequence of its attributes in insertion order, each with its name and its
\* AttributeValue; NoKeys stands for a record without dynamodb.Keys.
MaxAttributes == 2

AttributeNames == {"10", "2", "id", "name"}

AttributeValues == [type : {"S", "N"}, value : {"1"}]

NoKeys == <<[name |-> NoKey]>>

KeyObjects ==
  {obj \in SeqsUpTo([name : AttributeNames, value : AttributeValues], MaxAttributes) :
     \A i \in 1..Len(obj) : \A j \in 1..Len(obj) : obj[i].name = obj[j].name => i = j}

\* KeyObject[key]
ValueOf(obj, key) == obj[CHOOSE i \in 1..Len(obj) : obj[i].name = key].value

\* Object.keys(KeyObject): the array-index names first, in ascending numeric
\* order, then the other names in insertion order.
ObjectKeysOf(obj) ==
  LET names == [i \in 1..Len(obj) |-> obj[i].name]
  IN Ascending({k \in Range(names) : IsArrayIndex(k)}) \o SelectSeq(names, NotArrayIndex)

\* The attribute names in the order of their UTF-16 code units, which is the
\* order of Array.prototype.sort without a comparator.
CodeUnitOrder == <<"10", "2", "id", "name">>

\* names.sort(), for an array of distinct names
SortNames(names) ==
  LET Among(name) == name \in Range(names)
  IN SelectSeq(CodeUnitOrder, Among)

\* JSON.stringify of a string, of an AttributeValue such as {"S":"1"}, and of
\* an array or an object whose members are already stringified.
JsonString(s) == "\"" \o s \o "\""

JsonAttributeValue(v) == "{" \o JsonString(v.type) \o ":" \o JsonString(v.value) \o "}"

RECURSIVE Joined(_)
Joined(members) ==
  IF Len(members) = 0 THEN ""
  ELSE IF Len(members) = 1 THEN members[1]
  ELSE members[1] \o "," \o Joined(Tail(members))

JsonArray(members) == "[" \o Joined(members) \o "]"

JsonObject(members) == "{" \o Joined(members) \o "}"

\* The pairs [key, KeyObject[key]] over the names in the given order.
Pairs(obj, names) ==
  [i \in 1..Len(names) |->
     JsonArray(<<JsonString(names[i]), JsonAttributeValue(ValueOf(obj, names[i]))>>)]

\* orderBy without the sort of the attribute names.
KeysOrderByUnsorted(obj, p) ==
  IF obj = NoKeys THEN Uuid(p)
  ELSE JsonArray(Pairs(obj, ObjectKeysOf(obj)))

\* orderBy of DynamoStreamHandler.lambda for the record at position p:
\* JSON.stringify(Object.keys(KeyObject).sort().map((key) => [key, KeyObject[key]]))
\* or a uuid for a record without Keys.
KeysOrderBy(obj, p) ==
  IF obj = NoKeys THEN Uuid(p)
  ELSE JsonArray(Pairs(obj, SortNames(ObjectKeysOf(obj))))

\* unmarshall of one AttributeValue, stringified: S gives a string, N a number.
JsonUnmarshalled(v) == IF v.type = "S" THEN JsonString(v.value) ELSE v.value

\* The earlier orderBy: deterministicStringify(unmarshall(Keys)) copies the
\* attributes into a new object in sorted order and stringifies that object.
deterministicStringify(obj) ==
  LET sorted == SortNames(ObjectKeysOf(obj))
      copied == [i \in 1..Len(sorted) |-> [name |-> sorted[i], value |-> ValueOf(obj, sorted[i])]]
      keys == ObjectKeysOf(copied)
  IN JsonObject([i \in 1..Len(keys) |->
                   JsonString(keys[i]) \o ":" \o JsonUnmarshalled(ValueOf(copied, keys[i]))])

EarlierOrderBy(obj, p) == IF obj = NoKeys THEN Uuid(p) ELSE deterministicStringify(obj)

\* Two records are about to be grouped.
InitOrderKey ==
  /\ keyObjects \in (KeyObjects \cup {NoKeys}) \X (KeyObjects \cup {NoKeys})
  /\ orderKeys = <<>>
  /\ InitEngine({<<>>})
  /\ concurrency = 1
  /\ NoHandlerYet
  /\ NoSomeYet
  /\ NoSecondYet
  /\ NoQueryYet
  /\ NothingLogged

\* groupBy calls orderBy for the next record.
OrderByCall ==
  /\ Len(orderKeys) < Len(keyObjects)
  /\ LET p == Len(orderKeys) + 1
     IN orderKeys' = Append(orderKeys, [now |-> KeysOrderBy(keyObjects[p], p),
                                        earlier |-> EarlierOrderBy(keyObjects[p], p)])
  /\ UNCHANGED keyObjects
  /\ UNCHANGED <<engineVars, handlerVars, someVars, second, logged, queryVars>>

NextOrderKey == OrderByCall

SpecOrderKey == InitOrderKey /\ [][NextOrderKey]_vars

\* ------------------------------------------------------- dynamodb.query
\* query(documentClient, query, itemRequests) returns a stream of the items
\* that match, fetched page by page as items are requested.  A step of the
\* model is one turn of the event loop: the subjects, combineLatest and the
\* operators deliver synchronously, so whatever a value sets off downstream
\* (and what the consumer does in its own next handler) is part of the turn.
MaxPages == 2
MaxPageItems == 1
MaxRequested == 3

\* The start key of the page behind page n; the first page is queried with
\* the initial value null, Key(0).
Key(n) == <<"key", n>>

NO_KEY_KNOWN == <<"NO_KEY_KNOWN", 0>>

END_OF_PAGES == <<"END_OF_PAGES", 0>>

NoQuery == <<"none", 0>>

\* What the table answers: at least one page, each with some Items; every
\* page but the last comes with a LastEvaluatedKey.
Tables == {t \in SeqsUpTo(0..MaxPageItems, MaxPages) : Len(t) >= 1}

\* What the consumer does in its next handler for an item, before it returns:
\* nothing, itemRequests.next(1), or itemRequests.complete().
Reactions == {"none", "request", "complete"}

QueryState ==
  [pages |-> pages, pageStartKeys |-> pageStartKeys,
   noMoreItemsWillBeRequested |-> noMoreItemsWillBeRequested,
   desiredItemAdjustments |-> desiredItemAdjustments, subjects |-> subjects,
   desiredItemCount |-> desiredItemCount, status |-> status, buffer |-> buffer,
   inFlight |-> inFlight, sourceDone |-> sourceDone, queries |-> queries,
   delivered |-> delivered, requested |-> requested, requests |-> requests,
   dbFailed |-> dbFailed]

Becomes(s) ==
  /\ pages' = s.pages
  /\ pageStartKeys' = s.pageStartKeys
  /\ noMoreItemsWillBeRequested' = s.noMoreItemsWillBeRequested
  /\ desiredItemAdjustments' = s.desiredItemAdjustments
  /\ subjects' = s.subjects
  /\ desiredItemCount' = s.desiredItemCount
  /\ status' = s.status
  /\ buffer' = s.buffer
  /\ inFlight' = s.inFlight
  /\ sourceDone' = s.sourceDone
  /\ queries' = s.queries
  /\ delivered' = s.delivered
  /\ requested' = s.requested
  /\ requests' = s.requests
  /\ dbFailed' = s.dbFailed
  /\ UNCHANGED <<engineVars, handlerVars, someVars, second, logged, keyVars>>

\* The project function of the first concatMap: the key is replaced by
\* NO_KEY_KNOWN (which combineLatest passes on and switchMap answers with
\* EMPTY) and the page query is issued.
Project(s, startKey) ==
  [s EXCEPT !.pageStartKeys = IF s.subjects = "open" THEN NO_KEY_KNOWN ELSE @,
            !.inFlight = startKey,
            !.queries = Append(@, startKey)]

\* A start key reaches the first concatMap: it is projected at once, or
\* buffered while the inner stream of an earlier key is still active.
ConcatNext(s, startKey) ==
  IF s.inFlight # NoQuery
    THEN [s EXCEPT !.buffer = Append(@, startKey)]
    ELSE Project(s, startKey)

\* The three subjects are completed: combineLatest and switchMap complete,
\* and the stream completes once no page query is active or buffered.
CompleteSubjects(s) ==
  [s EXCEPT !.subjects = "completed",
            !.sourceDone = TRUE,
            !.status = IF s.inFlight = NoQuery /\ s.buffer = <<>> THEN "completed" ELSE @]

\* combineLatest emits [startKey, itemsDesired, noMoreRequests] and switchMap
\* decides whether a page is to be fetched.
Switch(s) ==
  IF s.pageStartKeys = NO_KEY_KNOWN THEN s
  ELSE IF s.pageStartKeys # END_OF_PAGES /\ s.desiredItemCount > 0
    THEN ConcatNext(s, s.pageStartKeys)
  ELSE IF s.noMoreItemsWillBeRequested \/ s.pageStartKeys = END_OF_PAGES
    THEN CompleteSubjects(s)
  ELSE s

\* desiredItemAdjustments.next(v): the subject keeps v as its value, and for
\* a subscribed stream scan adds it to the total and combineLatest emits.
Adjust(s, v) ==
  IF s.subjects # "open" THEN s
  ELSE IF s.status = "open"
    THEN Switch([s EXCEPT !.desiredItemAdjustments = v, !.desiredItemCount = @ + v])
    ELSE [s EXCEPT !.desiredItemAdjustments = v]

\* noMoreItemsWillBeRequested.next(true)
NoMore(s) ==
  IF s.subjects # "open" THEN s
  ELSE IF s.status = "open"
    THEN Switch([s EXCEPT !.noMoreItemsWillBeRequested = TRUE])
    ELSE [s EXCEPT !.noMoreItemsWillBeRequested = TRUE]

\* pageStartKeys.next(key), called for a page that has arrived
SetKey(s, key) ==
  IF s.subjects # "open" THEN s
  ELSE Switch([s EXCEPT !.pageStartKeys = key])

\* The consumer's next handler for one item.
React(s, reaction) ==
  IF reaction = "request" /\ s.requests = "open" /\ s.requested < MaxRequested
    THEN Adjust([s EXCEPT !.requested = @ + 1], 1)
  ELSE IF reaction = "complete" /\ s.requests = "open"
    THEN NoMore([s EXCEPT !.requests = "completed"])
  ELSE s

\* from(Items): the n items of a page go down the stream one by one.
RECURSIVE Deliver(_, _, _)
Deliver(s, n, reaction) ==
  IF n = 0 THEN s
  ELSE Deliver(React([s EXCEPT !.delivered = @ + 1], reaction), n - 1, reaction)

\* The inner stream of the page query completes: the first concatMap projects
\* the next buffered key, or completes if its source has completed.
InnerComplete(s) ==
  IF s.buffer # <<>>
    THEN Project([s EXCEPT !.buffer = Tail(@)], Head(s.buffer))
    ELSE [s EXCEPT !.inFlight = NoQuery,
                   !.status = IF s.sourceDone THEN "completed" ELSE @]

\* query() has been called: the subjects hold their initial values and
\* itemRequests is subscribed to; the returned stream is not yet.
InitQuery ==
  /\ pages \in Tables
  /\ pageStartKeys = Key(0)
  /\ noMoreItemsWillBeRequested = FALSE
  /\ desiredItemAdjustments = 0
  /\ subjects = "open"
  /\ desiredItemCount = 0
  /\ status = "unsubscribed"
  /\ buffer = <<>>
  /\ inFlight = NoQuery
  /\ sourceDone = FALSE
  /\ queries = <<>>
  /\ delivered = 0
  /\ requested = 0
  /\ requests = "open"
  /\ dbFailed = FALSE
  /\ InitEngine({<<>>})
  /\ concurrency = 1
  /\ NoHandlerYet
  /\ NoSomeYet
  /\ NoSecondYet
  /\ NoKeysYet
  /\ NothingLogged

\* The stream has not terminated.
Live == status \in {"unsubscribed", "open"}

\* itemRequests emits v, between two turns of the stream.
ItemRequest(v) ==
  /\ Live
  /\ requests = "open"
  /\ requested + v <= MaxRequested
  /\ Becomes(Adjust([QueryState EXCEPT !.requested = @ + v], v))

\* itemRequests completes.
ItemRequestsComplete ==
  /\ Live
  /\ requests = "open"
  /\ Becomes(NoMore([QueryState EXCEPT !.requests = "completed"]))

\* itemRequests errors: desiredItemAdjustments.error(error), which a
\* subscribed stream passes down.
ItemRequestsError ==
  /\ Live
  /\ requests = "open"
  /\ Becomes(IF subjects = "open"
               THEN [QueryState EXCEPT !.requests = "errored",
                                       !.subjects = "errored",
                                       !.status = IF @ = "open" THEN "errored" ELSE @]
               ELSE [QueryState EXCEPT !.requests = "errored"])

\* The returned stream is subscribed to: combineLatest subscribes to the
\* three sources, which replay their current values; scan starts from the
\* current value of desiredItemAdjustments.
Subscribe ==
  /\ status = "unsubscribed"
  /\ Becomes(IF subjects = "errored"
               THEN [QueryState EXCEPT !.status = "errored"]
               ELSE Switch([QueryState EXCEPT !.status = "open",
                                              !.desiredItemCount = desiredItemAdjustments]))

\* The page query in flight is answered: the second concatMap subtracts the
\* page's items from the desired count, publishes the next start key and
\* emits the items; then the inner stream of the query completes.
PageArrives(reaction) ==
  /\ status = "open"
  /\ inFlight # NoQuery
  /\ LET n == inFlight[2] + 1
         count == pages[n]
         next == IF n < Len(pages) THEN Key(n) ELSE END_OF_PAGES
         adjusted == Adjust(QueryState, 0 - count)
         keyed == SetKey(adjusted, next)
     IN Becomes(InnerComplete(Deliver(keyed, count, reaction)))

\* The page query in flight is rejected: the stream errors.
QueryFails ==
  /\ status = "open"
  /\ inFlight # NoQuery
  /\ Becomes([QueryState EXCEPT !.status = "errored", !.inFlight = NoQuery,
                                !.dbFailed = TRUE])

NextQuery ==
  \/ \E v \in 1..MaxRequested : ItemRequest(v)
  \/ ItemRequestsComplete
  \/ ItemRequestsError
  \/ Subscribe
  \/ \E reaction \in Reactions : PageArrives(reaction)
  \/ QueryFails

SpecQuery == InitQuery /\ [][NextQuery]_vars

\* ------------------------------------------------------- claim vocabulary
Positions == 1..Len(items)

KeyAt(p) == orderBy(items[p])

SameGroup(p, q) == KeyAt(p) = KeyAt(q)

Settled(p) == call[p] \in {"ok", "rejected"}

Returned == pc \in {"returned", "finalized"}

\* The keys that have a process call pending: the groups in flight.
KeysInFlight == {KeyAt(p) : p \in {q \in Positions : call[q] = "pending"}}

Failed(k) == \E p \in Positions : KeyAt(p) = k /\ call[p] = "rejected"

\* The position of the failing item of a failed group.
FailedAt(k) == CHOOSE p \in Positions : KeyAt(p) = k /\ call[p] = "rejected"

\* The positions of a failed group from its failing item on, in batch order.
SuffixOf(k) ==
  LET Behind(p) == KeyAt(p) = k /\ p >= FailedAt(k)
  IN SelectSeq([p \in Positions |-> p], Behind)

\* The returned records that hold an item of the group with key k.
RecordsOf(k) ==
  LET OfKey(rec) == orderBy(rec.item) = k
  IN SelectSeq(unprocessedRecords, OfKey)

Recorded(p) == \E i \in 1..Len(unprocessedRecords) : unprocessedRecords[i].item = items[p]

\* ----------------------------------------------------------------- claims
\* C1: two items that share an ordering key are never processed at the same
\* time: the process call of a later item of a group is not started until the
\* call of every earlier item of that group has settled.
C1_OrderingGuarantee ==
  \A p \in Positions : \A q \in Positions :
    (p < q /\ SameGroup(p, q) /\ call[q] # "none") => Settled(p)

\* C1 witness: the second item of a group is being processed after the first
\* has settled, while an item of another group is being processed too.
C1_Witness ==
  \E p \in Positions : \E q \in Positions : \E r \in Positions :
    /\ p < q /\ SameGroup(p, q) /\ call[p] = "ok" /\ call[q] = "pending"
    /\ ~SameGroup(p, r) /\ call[r] = "pending"

\* C2: at every moment the number of groups in flight is at most concurrency.
C2_ConcurrencyBound == Cardinality(KeysInFlight) <= concurrency

\* C2 witness: concurrency groups are in flight while another group waits.
C2_Witness ==
  /\ Cardinality(KeysInFlight) = concurrency
  /\ \E g \in 1..Len(groups) : gstate[g] = "queued"

\* C3: once the process call of an item of a group has failed, process is
\* never invoked for any later item of that group.
C3_StopOnFailure ==
  \A p \in Positions : \A q \in Positions :
    (p < q /\ SameGroup(p, q) /\ call[p] = "rejected") => call[q] = "none"

\* C3 witness: the invocation has returned with a group that failed at an
\* item which has a later item behind it.
C3_Witness ==
  /\ Returned
  /\ \E p \in Positions : \E q \in Positions :
       p < q /\ SameGroup(p, q) /\ call[p] = "rejected"

C5_ExactlyOneClass ==
  Returned => \A p \in Positions : (call[p] = "ok") # Recorded(p)

\* C6: for every group, the records of unprocessedRecords that hold its items
\* are none, or exactly the items of the group from the first failing item on.
C6_ContiguousSuffix ==
  Returned =>
    \A k \in Keys :
      IF Failed(k)
        THEN LET suffix == SuffixOf(k)
                 recs == RecordsOf(k)
             IN /\ Len(recs) = Len(suffix)
                /\ \A i \in 1..Len(recs) : recs[i].item = items[suffix[i]]
        ELSE RecordsOf(k) = <<>>

\* C7: in every failed group the record of the first unprocessed item carries
\* the error process raised for it, and the records of the later items of
\* the group carry no error.
C7_ErrorOnFirstOnly ==
  Returned =>
    \A k \in Keys :
      Failed(k) =>
        LET recs == RecordsOf(k)
        IN /\ Len(recs) >= 1
           /\ recs[1].error = raised[FailedAt(k)]
           /\ \A i \in 2..Len(recs) : recs[i].error = Undefined

\* C8: the records of unprocessedRecords appear in the order in which their
\* items appear in the batch: they are the items of a strictly increasing
\* sequence of batch positions.
C8_BatchOrder ==
  Returned =>
    \E f \in [1..Len(unprocessedRecords) -> Positions] :
      /\ \A i \in 1..Len(unprocessedRecords) : unprocessedRecords[i].item = items[f[i]]
      /\ \A i \in 1..(Len(unprocessedRecords) - 1) : f[i] < f[i + 1]

\* C8 witness: two groups failed in the reverse of their batch order, so the
\* records were tracked out of order and returned re-ordered.
C8_Witness ==
  /\ Returned
  /\ Len(unprocessedRecords) >= 2
  /\ unprocessedRecords # unsortedUnprocessedRecords

\* C9: an error of a process call never makes processWithOrdering reject: the
\* invocation is never rejected, and once every group is done it has resolved.
C9_NeverRejects ==
  /\ pc # "rejected"
  /\ pc = "running" => \E g \in 1..Len(groups) : gstate[g] # "done"

\* C9 witness: the invocation has resolved although a process call rejected.
C9_Witness ==
  /\ pc = "returned"
  /\ \E p \in Positions : call[p] = "rejected"

\* C10: in fail-fast mode finalisation throws the combined error exactly when
\* unprocessedRecords is non-empty, and returns nothing when it is empty.
C10_FailFast ==
  (pc = "finalized" /\ ~usePartialBatchResponses) =>
    IF Len(unprocessedRecords) > 0
      THEN outcome = "Threw"
      ELSE outcome = "ReturnedNothing"

\* C10 witness: finalisation in fail-fast mode threw over a non-empty list.
C10_Witness ==
  /\ pc = "finalized"
  /\ ~usePartialBatchResponses
  /\ Len(unprocessedRecords) > 0
  /\ outcome = "Threw"

\* The positions whose process call rejected, in batch order.
FailingPositions ==
  LET Rejected(p) == call[p] = "rejected"
  IN SelectSeq([p \in Positions |-> p], Rejected)

\* C11: the combined error of fail-fast mode wraps exactly one error per
\* failing group, the error raised by the group's failing item, in the batch
\* order of the failing items.
C11_OneErrorPerFailingGroup ==
  (pc = "finalized" /\ outcome = "Threw") =>
    errors = [i \in 1..Len(FailingPositions) |-> raised[FailingPositions[i]]]

\* C12: in partial mode over a non-empty unprocessedRecords, finalisation does
\* not throw and returns the identifier of every record, in the records' order.
C12_PartialList ==
  (pc = "finalized" /\ usePartialBatchResponses /\ Len(unprocessedRecords) > 0) =>
    /\ outcome = "ReturnedPartialList"
    /\ Len(batchItemFailures) = Len(unprocessedRecords)
    /\ \A i \in 1..Len(unprocessedRecords) :
         batchItemFailures[i].itemIdentifier = getItemIdentifier(unprocessedRecords[i].item)

\* C12 witness: a partial list that reports a failing item and a
\* never-attempted item behind it.
C12_Witness ==
  /\ pc = "finalized"
  /\ outcome = "ReturnedPartialList"
  /\ \E i \in 1..Len(unprocessedRecords) : unprocessedRecords[i].error # Undefined
  /\ \E i \in 1..Len(unprocessedRecords) : unprocessedRecords[i].error = Undefined
  /\ \E p \in Positions : call[p] = "none"

\* C13: a finalised invocation has exactly one outcome: ReturnedNothing when
\* no record is unprocessed, otherwise Threw in fail-fast mode and
\* ReturnedPartialList in partial mode; before finalisation there is none.
C13_OneOutcome ==
  IF pc = "finalized"
    THEN outcome = IF Len(unprocessedRecords) = 0 THEN "ReturnedNothing"
                   ELSE IF usePartialBatchResponses THEN "ReturnedPartialList"
                   ELSE "Threw"
    ELSE outcome = "none"

\* C13 witness: a non-empty batch was processed completely and finalisation
\* in partial mode returned nothing.
C13_Witness ==
  /\ pc = "finalized"
  /\ usePartialBatchResponses
  /\ Len(items) > 0
  /\ outcome = "ReturnedNothing"

\* C14: for an empty batch no mapper is ever started (so process is never
\* invoked), unprocessedRecords is empty, and finalisation returns nothing,
\* without errors or failures, in either mode.
C14_EmptyBatch ==
  Len(items) = 0 =>
    /\ pc \in {"idle", "returned", "finalized"}
    /\ resolvingCount = 0 /\ started = 0
    /\ unprocessedRecords = <<>>
    /\ pc = "finalized" =>
         outcome = "ReturnedNothing" /\ errors = <<>> /\ batchItemFailures = <<>>

\* C14 witness: an empty batch finalised in partial mode.
C14_Witness ==
  /\ Len(items) = 0
  /\ pc = "finalized"
  /\ usePartialBatchResponses

\* The key groupBy obtained for position p, and the key of the g-th group.
KeyGiven(p) == OrderKey(items, p)

GroupKey(g) == KeyGiven(groups[g][1])

FirstOccurrence(k) ==
  CHOOSE p \in Positions : KeyGiven(p) = k /\ \A q \in Positions : KeyGiven(q) = k => p <= q

\* The places <<g, i>> of the groups that hold position p.
PlacesOf(p) == {gi \in (1..Len(groups)) \X Positions :
                  gi[2] <= Len(groups[gi[1]]) /\ groups[gi[1]][gi[2]] = p}

Grouped == pc # "idle"

\* C15: grouping partitions the batch: every position is in exactly one group,
\* two positions are in the same group exactly when their keys are equal, and
\* inside each group the positions keep their batch order.
C15_Partition ==
  Grouped =>
    /\ \A p \in Positions : Cardinality(PlacesOf(p)) = 1
    /\ \A p \in Positions : \A q \in Positions :
         (KeyGiven(p) = KeyGiven(q)) <=>
           (\E g \in 1..Len(groups) : {p, q} \subseteq Range(groups[g]))
    /\ \A g \in 1..Len(groups) :
         \A i \in 1..Len(groups[g]) : \A j \in 1..Len(groups[g]) :
           i < j => groups[g][i] < groups[g][j]

\* C15 witness: a batch grouped into a group of two items, with an item of
\* another key between them, and a second group.
C15_Witness ==
  /\ Grouped
  /\ \E g \in 1..Len(groups) : \E h \in 1..Len(groups) :
       /\ Len(groups[g]) >= 2
       /\ groups[g][1] < groups[h][1] /\ groups[h][1] < groups[g][2]

\* C16 (as stated): the groups are emitted in the order of each key's first
\* occurrence in the batch.
C16_FirstOccurrenceOrder ==
  Grouped =>
    \A g \in 1..Len(groups) : \A h \in 1..Len(groups) :
      g < h => FirstOccurrence(GroupKey(g)) < FirstOccurrence(GroupKey(h))

\* The emission order of the keys of a JavaScript object.
EmittedBefore(k1, k2) ==
  IF IsArrayIndex(k1)
    THEN IsArrayIndex(k2) => IndexValue(k1) < IndexValue(k2)
    ELSE ~IsArrayIndex(k2) /\ FirstOccurrence(k1) < FirstOccurrence(k2)

\* C16 (amended): the groups of array-index keys are emitted first, in
\* ascending numeric order of the key, then the groups of the other keys in
\* the order of each key's first occurrence.
C16_EmissionOrder ==
  Grouped =>
    \A g \in 1..Len(groups) : \A h \in 1..Len(groups) :
      g < h => EmittedBefore(GroupKey(g), GroupKey(h))

\* C16 witness: a batch whose array-index key occurs after two other keys and
\* is emitted before them.
C16_Witness ==
  /\ Grouped
  /\ Len(groups) >= 3
  /\ IsArrayIndex(GroupKey(1))
  /\ ~IsArrayIndex(GroupKey(2)) /\ ~IsArrayIndex(GroupKey(3))
  /\ FirstOccurrence(GroupKey(1)) > FirstOccurrence(GroupKey(3))

\* The group that holds position p.
GroupOf(p) == CHOOSE g \in 1..Len(groups) : p \in Range(groups[g])

\* C19: a record without a natural key forms a group of one, and it is never
\* serialized behind another record: while unattempted it waits only for
\* p-map to start its group, and it has been attempted when the call returns.
C19_KeylessAlone ==
  Grouped =>
    \A p \in Positions :
      orderBy(items[p]) = NoKey =>
        /\ \E g \in 1..Len(groups) : groups[g] = <<p>>
        /\ (pc = "running" /\ call[p] = "none") =>
             gstate[GroupOf(p)] \in {"queued", "dispatched"}
        /\ Returned => call[p] # "none"

\* C19 witness: two records without a key are being processed at the same
\* time, behind a failed record of a keyed group.
C19_Witness ==
  \E p \in Positions : \E q \in Positions : \E r \in Positions :
    /\ r < p /\ p < q
    /\ orderBy(items[p]) = NoKey /\ orderBy(items[q]) = NoKey
    /\ call[p] = "pending" /\ call[q] = "pending"
    /\ call[r] = "rejected"

NotStarted(g) == gstate[g] \in {"queued", "dispatched"}

Complete(k) ==
  LET InGroup == {p \in Positions : KeyGiven(p) = k}
  IN \/ \A p \in InGroup : call[p] = "ok"
     \/ \E f \in InGroup :
          /\ call[f] = "rejected"
          /\ \A p \in InGroup : /\ p < f => call[p] = "ok"
                               /\ p > f => call[p] = "none"

\* C18 (as stated): with concurrency 1 no item of a group is started before
\* every group whose key appears earlier in the batch has run to completion.
C18_SerialByFirstAppearance ==
  concurrency = 1 =>
    \A p \in Positions : \A q \in Positions :
      (/\ KeyGiven(p) # KeyGiven(q)
       /\ FirstOccurrence(KeyGiven(p)) < FirstOccurrence(KeyGiven(q))
       /\ call[q] # "none") => Complete(KeyGiven(p))

\* C18 (amended): with concurrency 1 no item of a group is started before
\* every group emitted earlier by the Grouper has run to completion.
C18_SerialByEmission ==
  concurrency = 1 =>
    \A p \in Positions : \A q \in Positions :
      (/\ KeyGiven(p) # KeyGiven(q)
       /\ EmittedBefore(KeyGiven(p), KeyGiven(q))
       /\ call[q] # "none") => Complete(KeyGiven(p))

\* C18 witness: with concurrency 1 a group that failed is done and the next
\* group, whose key appears earlier in the batch, is being processed.
C18_Witness ==
  /\ concurrency = 1
  /\ \E g \in 1..Len(groups) : \E h \in 1..Len(groups) :
       /\ g < h /\ gstate[g] = "done" /\ gstate[h] = "running"
       /\ \E p \in Range(groups[g]) : call[p] = "rejected"
       /\ FirstOccurrence(GroupKey(h)) < FirstOccurrence(GroupKey(g))

\* C20: if every process call settles, a running invocation returns, and on
\* return every group is done and has run to completion.
C20_RunsToCompletion ==
  (pc = "running") ~>
    (/\ pc = "returned"
     /\ \A g \in 1..Len(groups) : gstate[g] = "done" /\ Complete(GroupKey(g)))

\* C20 witness: the invocation has returned over more groups than
\* concurrency, one of them failed and one processed completely.
C20_Witness ==
  /\ pc = "returned"
  /\ Len(groups) > concurrency
  /\ \E p \in Positions : call[p] = "rejected"
  /\ \E p \in Positions : \E q \in Positions :
       p < q /\ KeyGiven(p) = KeyGiven(q) /\ call[q] = "ok"

\* The items whose process call succeeded.
Succeeded == {p \in Positions : call[p] = "ok"}

\* C23: finalisation makes no process call and revokes none: the step that
\* finalises a returned batch, in fail-fast or in partial mode, leaves every
\* process call as it was, so the successfully processed items are the same
\* in both modes.
C23_FinalizeKeepsCalls ==
  [][pc = "returned" => (call' = call /\ Succeeded' = Succeeded)]_vars

\* C23 witness: a batch finalised in fail-fast mode has thrown, with one item
\* processed successfully and another one failed.
C23_Witness ==
  /\ pc = "finalized" /\ outcome = "Threw"
  /\ Succeeded # {}
  /\ \E p \in Positions : call[p] = "rejected"

Started(g) == ~NotStarted(g)

\* C30 (as stated): the first group encountered in the batch is scheduled
\* first: no group is started before the group of the first item.
C30_FirstEncounteredFirst ==
  Grouped =>
    \A g \in 1..Len(groups) : Started(g) => Started(GroupOf(1))

\* C30 (amended): groups are started in the order in which the Grouper
\* emitted them: a group is never started before every group emitted before
\* it has been started, so the first group emitted is scheduled first.
C30_StartedInEmissionOrder ==
  Grouped =>
    \A g \in 1..Len(groups) : \A h \in 1..Len(groups) :
      (h < g /\ Started(g)) => Started(h)

\* C30 witness: the first emitted group is started while a later group is
\* not, and that first group does not hold the first item of the batch.
C30_Witness ==
  /\ Grouped
  /\ \E g \in 1..Len(groups) : g > 1 /\ Started(1) /\ NotStarted(g)
  /\ GroupOf(1) # 1

\* ------------------------------------------------------ claims on handlers
\* The process callback of the record at p has run.
Attempted(p) == cb[p] # "none"

\* q is the next record of p's group.
NextInGroup(p, q) ==
  /\ p < q /\ KeyGiven(p) = KeyGiven(q)
  /\ \A r \in Positions : (p < r /\ r < q) => KeyGiven(r) # KeyGiven(p)

IsPrefix(s, t) == Len(s) <= Len(t) /\ \A i \in 1..Len(s) : s[i] = t[i]

\* An action invoked for the record at p has failed.
ActionFailed(p) == cb[p] = "threw" /\ invoked[p] # <<>>

NoRecordFailed == \A p \in Positions : call[p] # "rejected"

\* C21: for each record the registered actions are invoked in registration
\* order, each one only after the previous one has settled; once an action has
\* failed no further action is invoked for the record, and the record counts
\* as failed: it is returned as unprocessed and the handler throws or reports
\* it.
C21_ActionsInOrder ==
  \A p \in Positions :
    /\ IsPrefix(invoked[p], ActionsFor(handler, items[p]))
    /\ Len(invoked[p]) <= settled[p] + 1
    /\ ActionFailed(p) =>
         (/\ Len(invoked[p]) = settled[p]
          /\ call[p] # "ok"
          /\ Returned => (call[p] = "rejected" /\ Recorded(p))
          /\ pc = "finalized" => outcome \in {"Threw", "ReturnedPartialList"})

\* C21 witness: a batch is finalised in which both actions ran for one record
\* and the first action failed for another, whose second action was not
\* invoked.
C21_Witness ==
  /\ pc = "finalized"
  /\ \E p \in Positions : \E q \in Positions :
       /\ invoked[p] = <<"first", "second">> /\ call[p] = "ok"
       /\ Len(ActionsFor(handler, items[q])) = 2
       /\ invoked[q] = <<"first">> /\ ActionFailed(q)

\* C24: with ignoreUnparseableMessages set on an SQS handler, a message whose
\* body fails to parse is ignored: no action is invoked for it, it does not
\* fail, it is not returned as unprocessed, the next message of its group is
\* still processed, and a batch without a failed message makes the handler
\* return nothing to retry.
C24_UnparseableMessageIgnored ==
  (handler.kind = "sqs" /\ handler.config.ignoreUnparseable = Given(TRUE)) =>
    /\ \A p \in Positions :
         (ParseThrows(items[p].v) /\ Attempted(p)) =>
           (/\ invoked[p] = <<>>
            /\ cb[p] = "returned"
            /\ call[p] # "rejected"
            /\ Returned => (/\ ~Recorded(p)
                            /\ \A q \in Positions : NextInGroup(p, q) => Attempted(q)))
    /\ (pc = "finalized" /\ NoRecordFailed) => outcome = "ReturnedNothing"

\* C24 witness: an SQS handler that ignores unparseable messages has finished
\* a batch whose first message does not parse and whose second message, of
\* the same group, was processed by both actions.
C24_Witness ==
  /\ handler.kind = "sqs" /\ handler.config.ignoreUnparseable = Given(TRUE)
  /\ pc = "finalized" /\ outcome = "ReturnedNothing"
  /\ \E p \in Positions : \E q \in Positions :
       /\ NextInGroup(p, q)
       /\ ParseThrows(items[p].v) /\ call[p] = "ok"
       /\ invoked[q] = <<"first", "second">> /\ call[q] = "ok"

\* C25: with ignoreUnparseableEvents set on a Kinesis handler, a record whose
\* data fails to parse is ignored: it does not fail, the handler does not
\* fail because of it, and the actions are invoked exactly for the records
\* that parse.
C25_UnparseableEventIgnored ==
  (handler.kind = "kinesis" /\ handler.config.ignoreUnparseable = Given(TRUE)) =>
    /\ \A p \in Positions :
         (ParseThrows(items[p].v) /\ Attempted(p)) =>
           (cb[p] = "returned" /\ call[p] # "rejected")
    /\ (pc = "finalized" /\ \A p \in Positions : ~ActionFailed(p)) =>
         /\ outcome = "ReturnedNothing"
         /\ \A p \in Positions : (invoked[p] # <<>>) <=> ~ParseThrows(items[p].v)

\* A DynamoDB record without a dynamodb property, or without an image that
\* its event type requires.
LacksRequired(shape) ==
  \/ ~shape.dynamodb
  \/ shape.eventName \in {"INSERT", "MODIFY"} /\ ~shape.NewImage
  \/ shape.eventName \in {"MODIFY", "REMOVE"} /\ ~shape.OldImage

C27_HealthCheckAnswered ==
  ((event.httpMethod \/ event.healthCheck) /\ lpc # "start") =>
    /\ lpc = "answered"
    /\ response = IF event.httpMethod THEN HttpHealthy ELSE Healthy
    /\ runContexts = 0
    /\ pc = "idle"
    /\ \A p \in Positions : cb[p] = "none" /\ invoked[p] = <<>> /\ call[p] = "none"

\* C27 witness: an event with a healthCheck property, no httpMethod and two
\* records has been answered.
C27_Witness ==
  /\ lpc = "answered" /\ response = Healthy
  /\ event.healthCheck /\ ~event.httpMethod
  /\ Len(items) = 2

\* The records of a list hold only items of the batch `its`.
OwnItems(recs, its) == \A i \in 1..Len(recs) : recs[i].item \in Range(its)

\* C22: an invocation holds no state of another one, also when two are
\* interleaved: its tracking list is empty until it tracks a failure of its
\* own, the list and the returned records hold only items of its own batch,
\* and it returns unprocessed records exactly when one of its own process
\* calls failed.
C22_NoSharedState ==
  /\ OwnItems(unsortedUnprocessedRecords, items)
  /\ OwnItems(unprocessedRecords, items)
  /\ OwnItems(second.unsortedUnprocessedRecords, second.items)
  /\ OwnItems(second.unprocessedRecords, second.items)
  /\ NoRecordFailed => unsortedUnprocessedRecords = <<>>
  /\ second.call # "rejected" => second.unsortedUnprocessedRecords = <<>>
  /\ Returned => (unprocessedRecords = <<>> <=> NoRecordFailed)
  /\ second.pc = "returned" =>
       (second.unprocessedRecords = <<>> <=> second.call # "rejected")

\* C22 witness: both invocations have returned; the second one failed on an
\* item that is also in the batch of the first, where it was processed, and
\* the first returns another item as unprocessed.
C22_Witness ==
  /\ Returned /\ second.pc = "returned"
  /\ second.call = "rejected"
  /\ \E p \in Positions : items[p] = second.items[1] /\ call[p] = "ok"
  /\ unprocessedRecords # <<>>
  /\ \A i \in 1..Len(unprocessedRecords) : unprocessedRecords[i].item # second.items[1]

\* The options of a handler other than the two that harness() may override.
KeptOptions ==
  {"parse", "concurrency", "usePartialBatchResponses", "ignoreUnparseable",
   "loggerObfuscateImageKeys"}

\* C28: the copy built by harness() / withOverrides is a replica: it has the
\* actions of the original in the same order and the same options, except
\* for the overridden logger and createRunContext, and the original is left
\* unchanged.
C28_CopyIsReplica ==
  [][(copy = NoHandler /\ copy' # NoHandler) =>
       /\ handler' = handler
       /\ copy'.kind = handler.kind
       /\ copy'.actions = handler.actions
       /\ \A option \in KeptOptions : copy'.config[option] = handler.config[option]]_vars

\* The first step whose operator emits a value, 0 if there is none.
FirstValueAt ==
  LET having == {i \in 1..Len(steps) : steps[i] # "nothing"}
  IN IF having = {} THEN 0 ELSE CHOOSE i \in having : \A j \in having : i <= j

\* C29: a handler built with some(...steps) runs the steps until one yields a
\* value: no step behind that one is invoked and that value is the result; if
\* no step yields a value the handler fails with UnhandledEventError.
C29_FirstValueWins ==
  /\ FirstValueAt # 0 => subscribed <= FirstValueAt
  /\ result # Pending =>
       result = IF FirstValueAt = 0 THEN Failure("UnhandledEventError")
                                    ELSE Resolved(steps[FirstValueAt])

\* The positions whose item failed or was never attempted, in batch order.
UnprocessedPositions ==
  LET NotOk(p) == call[p] # "ok"
  IN SelectSeq([p \in Positions |-> p], NotOk)

\* C31: unprocessedRecords holds exactly one record per batch position whose
\* item failed or was never attempted, in batch order, and none for a
\* position whose item succeeded, also when the same item occurs at more
\* than one position of the batch.
C31_OneRecordPerPosition ==
  Returned =>
    /\ Len(unprocessedRecords) = Len(UnprocessedPositions)
    /\ \A i \in 1..Len(unprocessedRecords) :
         unprocessedRecords[i].item = items[UnprocessedPositions[i]]

\* What the process call of each attempted position did is read from call
\* and raised; a position is attempted exactly when no earlier item of its
\* group failed, so two runs over the same batch in which process behaves
\* the same agree on call and raised when they return.
SameAttempts ==
  \A p \in Positions :
    call[p] = "none" <=>
      \E q \in Positions : q < p /\ KeyGiven(q) = KeyGiven(p) /\ call[q] = "rejected"

\* The records a run tracks when its groups run one after the other, in the
\* order of their emission (concurrency 1), over the first n groups.
RECURSIVE SerialTracked(_)
SerialTracked(n) ==
  IF n = 0 THEN <<>>
  ELSE LET group == groups[n]
           failing == {i \in 1..Len(group) : call[group[i]] = "rejected"}
       IN IF failing = {} THEN SerialTracked(n - 1)
          ELSE LET i == CHOOSE j \in failing : TRUE
               IN Append(SerialTracked(n - 1),
                         [item |-> items[group[i]], error |-> raised[group[i]]])
                    \o Collateral(group, i)

\* C32: for a fixed batch and a fixed behaviour of process on each item, the
\* returned unprocessedRecords (items, order and errors) are the same for
\* every concurrency and every interleaving of the groups: they are the
\* records of the run that takes the groups one after the other.
C32_SameResultForEveryInterleaving ==
  Returned =>
    /\ SameAttempts
    /\ unprocessedRecords = Sorted(items, SerialTracked(Len(groups)))

\* C33: within one invocation process is called at most once for the item at
\* each batch position: a call that has been made is never made again, and a
\* call that has settled stays as it settled.
C33_AtMostOnce ==
  [][\A p \in Positions :
       /\ call[p] # "none" => call'[p] # "none"
       /\ call[p] # "none" /\ call'[p] = "pending" => call[p] = "pending"
       /\ Settled(p) => call'[p] = call[p]]_vars

\* C33 witness: an invocation over three items has been finalised; a group of
\* two items was processed completely and the item of another group failed.
C33_Witness ==
  /\ pc = "finalized"
  /\ Len(items) = 3
  /\ \E p \in Positions : \E q \in Positions :
       p < q /\ SameGroup(p, q) /\ call[p] = "ok" /\ call[q] = "ok"
  /\ \E p \in Positions : call[p] = "rejected"

\* The lambda has produced its outcome: handleUnprocessedRecords has thrown
\* or returned, or the await of processWithOrdering has thrown.
HandlerDone == lpc = "handling" /\ (outcome # "none" \/ pc = "rejected")

\* No group is left to run and no process call or action is in flight.
AllGroupsFinished ==
  /\ \A g \in 1..Len(groups) : gstate[g] = "done"
  /\ \A p \in Positions : call[p] # "pending" /\ cb[p] # "awaiting"

\* C34: the handler's outcome (combined error, partial list or nothing) is
\* produced only after every group has finished: when the handler throws or
\* returns no process call is pending, and none is started afterwards, also
\* when a failure occurred early in the run.
C34_OutcomeAfterAllGroups ==
  [][/\ HandlerDone' => AllGroupsFinished'
     /\ HandlerDone => (call' = call /\ cb' = cb /\ invoked' = invoked)]_vars

\* C34 witness: the record at the first position failed, a record of another
\* group was processed after that failure, and the handler then threw the
\* combined error.
C34_Witness ==
  /\ HandlerDone
  /\ outcome = "Threw"
  /\ Len(items) >= 2
  /\ call[1] = "rejected"
  /\ \E p \in Positions : p > 1 /\ call[p] = "ok" /\ Len(invoked[p]) > 0
  /\ unsortedUnprocessedRecords[1].item = items[1]

\* The attributes of a Keys object, whatever their order.
AttributesOf(obj) == Range(obj)

RedactionThrows ==
  /\ handler.kind = "sqs"
  /\ handler.config.redactionConfig # Undefined
  /\ handler.config.redactionConfig[2].redactMessageBody = "throws"

\* What may stand for a body in the log when its redaction failed.
StandIns(body) ==
  IF handler.config.redactionConfig[2].publicEncryptionKey = "valid"
    THEN {RedactionFailed, PublicEncrypt(body)}
    ELSE {RedactionFailed, EncryptionFailed, "[error]"}

\* C36: a failing body redaction never fails or stops the SQS handler: the
\* lambda goes on to process the records, every record is attempted unless
\* an earlier record of its group failed, the outcome depends on the process
\* calls alone, and the log holds '[REDACTION FAILED]' for each body and the
\* encrypted body (or '[ENCRYPTION FAILED]'), never the raw body.
C36_RedactionFailureIsHarmless ==
  (RedactionThrows /\ lpc = "handling") =>
    /\ \A p \in Positions : <<"Processing SQS topic message", RedactionFailed>> \in logged
    /\ \A entry \in logged : entry[2] \in UNION {StandIns(Body(items[p])) : p \in Positions}
    /\ \A entry \in logged : \A p \in Positions : entry[2] # Body(items[p])
    /\ \A p \in Positions :
         <<"Failed to redact message body",
           IF handler.config.redactionConfig[2].publicEncryptionKey = "valid"
             THEN PublicEncrypt(Body(items[p])) ELSE EncryptionFailed>> \in logged
    /\ pc = "finalized" =>
         /\ \A p \in Positions :
              call[p] = "none" =>
                \E q \in Positions : q < p /\ KeyGiven(q) = KeyGiven(p) /\ call[q] = "rejected"
         /\ NoRecordFailed <=> outcome = "ReturnedNothing"

\* C36 witness: redaction and encryption both failed, every record of a batch
\* of two was processed, and one of them failed in its action and was logged
\* as a failed record.
C36_Witness ==
  /\ RedactionThrows
  /\ handler.config.redactionConfig[2].publicEncryptionKey = "not-a-valid-key"
  /\ pc = "finalized"
  /\ Len(items) = 2
  /\ \A p \in Positions : call[p] # "none"
  /\ \E p \in Positions : call[p] = "ok"
  /\ <<"Failed to process record", RedactionFailed>> \in logged

\* C37: a page query is issued only while the number of requested items not
\* yet delivered is greater than zero.
C37_QueriesOnDemand ==
  [][Len(queries') > Len(queries) => requested' - delivered' > 0]_vars

\* C38: each page start key is used for at most one database query, so no
\* page is fetched twice.
C38_EachKeyUsedOnce ==
  \A i \in 1..Len(queries) : \A j \in 1..Len(queries) : queries[i] = queries[j] => i = j

\* The number of items that match the query.
RECURSIVE Sum(_)
Sum(counts) == IF counts = <<>> THEN 0 ELSE Head(counts) + Sum(Tail(counts))

\* C39: a stream that has completed has emitted at least as many items as
\* were requested in total, or every matching item if fewer match, whether
\* the requests were made before or after the stream was subscribed to.
C39_RequestedItemsEmitted ==
  status = "completed" => delivered >= Min(requested, Sum(pages))

\* C40: when a page query fails or itemRequests errors while the stream has
\* not terminated, the stream terminates with an error: it does not stay
\* open and it does not complete.
C40_FailureEndsInError ==
  [][/\ (~dbFailed /\ dbFailed') => status' = "errored"
     /\ (requests = "open" /\ requests' = "errored" /\ status = "open") => status' = "errored"
     /\ (requests = "errored" /\ status = "unsubscribed" /\ status' # "unsubscribed")
          => status' = "errored"
     /\ status = "errored" => status' = "errored"]_vars
====
